---------------------------- MODULE Spec2Model ----------------------------
(***************************************************************************)
(* A model of the perception-to-actuation control loop of the legged robot *)
(* (babyStep.py with the status host of babyHost.py): the motion detector, *)
(* the movement executor move_to_object, the servo_lock gate and the       *)
(* threads that take it.                                                   *)
(*                                                                         *)
(* Units.  Angles are integers in tenths of a degree, distances in         *)
(* thousandths, times in hundredths of a second.                           *)
(***************************************************************************)
EXTENDS Integers, Sequences, FiniteSets, TLC

VARIABLES
    detector,   \* the MotionDetector object: its fields, under the source's names
    det_call,   \* the last detect_motion call: state at entry, inputs, result
    det_fresh,  \* no detect_motion call since construction or reset_detection
    servo_lock, \* the holder of servo_lock, or "free"
    pc,         \* where each thread is
    loc,        \* the control thread's local variables, under the source's names
    seq_i,      \* perform_movement_sequence: the index of its current command
    head,       \* move.Left_Right_input (x) and move.Up_Down_input (y)
    bus_last,   \* the last call made on the actuator driver
    host,       \* the VideoHost object: its fields, under the source's names
    bus_time,   \* how long one move.move call takes on this hardware
    led,        \* the colour the LED strip shows after the control thread's commands
    published,  \* every line handed to update_status so far, in order
    status_data \* get_status: the snapshot the request in progress has built

detVars == <<detector, det_call, det_fresh>>

webVars == <<published, status_data>>

thrVars == <<servo_lock, pc, loc, seq_i, head, bus_last, host, bus_time, led, webVars>>

vars == <<detector, det_call, det_fresh, servo_lock, pc, loc, seq_i, head,
          bus_last, host, bus_time, led, published, status_data>>

(***************************************************************************)
(* Values                                                                  *)
(***************************************************************************)
\* Python's None.
None == [none |-> TRUE]

Abs(n) == IF n < 0 THEN -n ELSE n

Min(a, b) == IF a < b THEN a ELSE b

\* Number of distinct camera scenes the model draws frames from.
NumFrames == 2

\* What the camera and cv2.imdecode can produce: no frame (None from the
\* camera), an exception in camera.get_frame, bytes that do not decode, or a
\* decoded image.
NoFrame == [kind |-> "no_frame"]

CameraRaises == [kind |-> "raises"]

Undecodable == [kind |-> "undecodable"]

Images == {[kind |-> "img", id |-> i] : i \in 1..NumFrames}

CameraOutcomes == {NoFrame, CameraRaises, Undecodable} \cup Images

\* VideoHost.get_frame_safe: an exception of the camera is caught and None
\* returned in its place.
get_frame_safe(raw) == IF raw = CameraRaises THEN NoFrame ELSE raw

\* Frame geometry (display_img.shape) delivered by the camera driver.
FrameWidth == 640

FrameHeight == 480

\* A contour as the detector sees it: its enclosed area (cv2.contourArea) and
\* its bounding rectangle (cv2.boundingRect).
Contour(area, x, y, w, h) == [area |-> area, x |-> x, y |-> y, w |-> w, h |-> h]

\* The contours the model offers to findContours: on both sides of each
\* area gate, right of, left of and at the frame centre.
SmallContour == Contour(2500, 100, 100, 101, 100)   \* area not above the minimum

ThinContour == Contour(2600, 200, 200, 100, 100)    \* box area 10000: not above the gate

RightContour == Contour(9000, 386, 138, 125, 125)   \* passes both; bearing 12.0 degrees

LeftContour == Contour(12000, 0, 115, 160, 250)     \* passes both; bearing -22.5 degrees

CenterContour == Contour(30000, 220, 140, 200, 200) \* passes both; bearing 0 degrees

\* findContours' results offered to the detector on its own.
ContourLists ==
    { <<>>, <<SmallContour>>, <<ThinContour>>, <<RightContour>>, <<LeftContour>>,
      <<SmallContour, RightContour>> }

(***************************************************************************)
(* MotionDetector                                                          *)
(***************************************************************************)
\* scan_count above which the background model is reseeded.
ScanThreshold == 100

\* Minimum contour area and minimum bounding-box area of a detection.
MinArea == 2500

MinMovement == 10000

\* Half of the assumed 60 degree field of view, in tenths of a degree.
HalfFov == 300

\* The head position the bearing is corrected for: the constant the detector
\* uses (head_x = head_y = 300), and the centre it is compared with.
HeadDefault == 300

HeadCenter == 300

\* Numerator of the distance estimate, 1000 / sqrt(w * h).
DistanceK == 1000

\* MotionDetector.__init__
NewDetector ==
    [ avg |-> None, last_motion |-> None, motion_detected |-> FALSE,
      object_position |-> None, last_detection_image |-> None,
      detection_info |-> None, is_moving |-> FALSE, scan_count |-> 0 ]

\* A reset_detection that keeps the background model.
reset_keeps_model(d) ==
    [d EXCEPT !.last_motion = None, !.motion_detected = FALSE, !.scan_count = 0]

\* MotionDetector.reset_detection
reset_detection(d) ==
    [d EXCEPT !.avg = None, !.last_motion = None,
              !.motion_detected = FALSE, !.scan_count = 0]

\* gray.copy().astype("float"): a background model seeded from one frame.
SeedModel(img) == [seed |-> img.id, blends |-> 0]

\* cv2.accumulateWeighted(gray, avg, 0.2): one more frame blended in.
BlendModel(avg, img) == [avg EXCEPT !.blends = @ + 1]

\* max(contours, key=cv2.contourArea): the first contour of maximal area.
RECURSIVE LargestFrom(_, _, _)
LargestFrom(cs, i, best) ==
    IF i > Len(cs) THEN best
    ELSE LargestFrom(cs, i + 1, IF cs[i].area > best.area THEN cs[i] ELSE best)

largest_contour(cs) == LargestFrom(cs, 2, cs[1])

\* Integer square root, for math.sqrt on the box areas the model uses.
RECURSIVE SqrtBetween(_, _, _)
SqrtBetween(n, lo, hi) ==
    IF lo >= hi THEN lo
    ELSE LET mid == (lo + hi + 1) \div 2
         IN  IF mid * mid <= n THEN SqrtBetween(n, mid, hi)
             ELSE SqrtBetween(n, lo, mid - 1)

ISqrt(n) == SqrtBetween(n, 0, n)

\* A bearing measured from the other side of the frame.
AngleOfMirrored(center, frame_center) ==
    LET num == (frame_center - center) * HalfFov
    IN  IF num >= 0 THEN num \div frame_center ELSE -((-num) \div frame_center)

\* ((center - frame_center) / frame_center) * 30, in tenths of a degree.
AngleOf(center, frame_center) ==
    LET num == (center - frame_center) * HalfFov
    IN  IF num >= 0 THEN num \div frame_center ELSE -((-num) \div frame_center)

\* The head-position term added to the bearing: (head - 300) / 10 degrees.
HeadBias(h) == h - HeadCenter

\* 1000 / math.sqrt(w * h), in thousandths.
DistanceOf(w, h) == (DistanceK * 1000) \div ISqrt(w * h)

\* The object_position dict built from the largest contour.
PositionOf(c) ==
    LET center_x == c.x + (c.w \div 2)
        center_y == c.y + (c.h \div 2)
        frame_center_x == FrameWidth \div 2
        frame_center_y == FrameHeight \div 2
    IN  [ angle_x  |-> AngleOf(center_x, frame_center_x) + HeadBias(HeadDefault),
          angle_y  |-> AngleOf(center_y, frame_center_y) + HeadBias(HeadDefault),
          distance |-> DistanceOf(c.w, c.h) ]

\* The detection_info dict (the timestamp left out).
InfoOf(c) ==
    [ position     |-> PositionOf(c),
      object_size  |-> [width |-> c.w, height |-> c.h],
      center       |-> [x |-> c.x + (c.w \div 2), y |-> c.y + (c.h \div 2)],
      frame_center |-> [x |-> FrameWidth \div 2, y |-> FrameHeight \div 2] ]

\* The annotated frame kept as last_detection_image.
ImageOf(img, c) == [frame |-> img.id, box |-> <<c.x, c.y, c.w, c.h>>]

\* A detection gated by the contour area alone.
PassesAreaGate(cs) == Len(cs) > 0 /\ largest_contour(cs).area > MinArea

\* The two area gates of a detection.
PassesGates(cs) ==
    /\ Len(cs) > 0
    /\ largest_contour(cs).area > MinArea
    /\ largest_contour(cs).w * largest_contour(cs).h > MinMovement

\* A reseed test that is one scan late.
ReseedLate(count) == count > ScanThreshold + 1

\* The reseed test after the counter has been incremented.
ReseedDue(count) == count > ScanThreshold

\* The cold-start test: no background model yet.
ColdStart(d) == d.avg = None

\* A detect_motion without the is_moving guard.
NeverSkip(d) == FALSE

\* The guard at the head of detect_motion.
SkipWhileMoving(d) == d.is_moving

\* A detect_motion that drops its background model when it gets no image.
SkippedFrameResets(d) == [det |-> [d EXCEPT !.avg = None], ret |-> None, acquired |-> TRUE]

\* The two early returns of detect_motion on a missing or undecodable frame.
SkippedFrame(d) == [det |-> d, ret |-> None, acquired |-> TRUE]

\* MotionDetector.detect_motion on the detector d, with what the camera hands
\* back (cam) and what findContours finds (cs).  The result: the detector
\* afterwards, the value returned, and whether a frame was asked for.
detect_motion(d, cam, cs) ==
    IF SkipWhileMoving(d)
    THEN [det |-> d, ret |-> None, acquired |-> FALSE]
    ELSE IF get_frame_safe(cam).kind # "img"
    THEN SkippedFrame(d)
    ELSE IF ColdStart(d)
    THEN [det |-> [d EXCEPT !.avg = SeedModel(cam)], ret |-> None, acquired |-> TRUE]
    ELSE IF ReseedDue(d.scan_count + 1)
    THEN [det |-> [d EXCEPT !.avg = SeedModel(cam), !.scan_count = 0],
          ret |-> None, acquired |-> TRUE]
    ELSE LET d1 == [d EXCEPT !.scan_count = @ + 1, !.avg = BlendModel(@, cam)]
         IN  IF PassesGates(cs)
             THEN LET c == largest_contour(cs)
                  IN  [det |-> [d1 EXCEPT !.object_position = PositionOf(c),
                                          !.last_detection_image = ImageOf(cam, c),
                                          !.detection_info = InfoOf(c),
                                          !.motion_detected = TRUE],
                       ret |-> PositionOf(c), acquired |-> TRUE]
             ELSE [det |-> d1, ret |-> None, acquired |-> TRUE]

\* No detect_motion call made yet.
NoCall == [made |-> FALSE]

\* The record of one detect_motion call: the detector before it, what the
\* camera and the contour search gave, the value returned.
CallRecord(d, cam, cs, fresh, r) ==
    [made |-> TRUE, first |-> fresh, before |-> d, cam |-> cam,
     passes |-> PassesGates(cs), ret |-> r.ret, acquired |-> r.acquired]

\* A move_to_object that does not set the moving flag.
begin_unflagged(d) == d

\* detector.is_moving = True, at the head of move_to_object.
begin_moving(d) == [d EXCEPT !.is_moving = TRUE]

\* The tail of move_to_object: the flag, then the image, then the record.
end_moving(d) == [d EXCEPT !.is_moving = FALSE]

clear_image(d) == [d EXCEPT !.last_detection_image = None]

\* A tail of move_to_object that leaves detection_info in place.
clear_info_kept(d) == d

clear_info(d) == [d EXCEPT !.detection_info = None]

(***************************************************************************)
(* servo_lock, the actuator driver and the head position                   *)
(***************************************************************************)
Threads == {"ctl", "seq", "main", "http"}

Free == "free"

\* An acquire that never blocks.
CanAcquireAlways(t) == TRUE

\* threading.Lock.acquire: blocks while anyone, the caller included, holds it.
CanAcquire(t) == servo_lock = Free

\* The lock when a with servo_lock block is left normally, and when it is left
\* by an exception raised inside it.
AfterWith(t) == Free

\* A block that keeps the lock when an exception leaves it.
AfterRaiseHeld(t) == t

AfterRaise(t) == Free

\* No actuator call made yet.
NoBus == [made |-> FALSE]

\* One call on the actuator driver: who made it, which command, and whether
\* it returned (ok) or raised.
BusRecord(t, op, leg, dir, ok) ==
    [made |-> TRUE, by |-> t, op |-> op, leg |-> leg, dir |-> dir, ok |-> ok]

\* How far the model lets the head travel from its centre, in steps.
HeadSpan == 2

\* The step of a look command given no step count.
LookWiggle == 1

HeadHome == [x |-> HeadCenter, y |-> HeadCenter]

Clamp(v) ==
    IF v > HeadCenter + HeadSpan THEN HeadCenter + HeadSpan
    ELSE IF v < HeadCenter - HeadSpan THEN HeadCenter - HeadSpan ELSE v

\* move.look_up / look_down / look_left / look_right / look_home: the pan and
\* tilt offsets after the command (steps = 0 stands for no step count given).
LookEffect(h, dir, steps) ==
    LET n == IF steps = 0 THEN LookWiggle ELSE steps
    IN  CASE dir = "up"    -> [h EXCEPT !.y = Clamp(@ + n)]
          [] dir = "down"  -> [h EXCEPT !.y = Clamp(@ - n)]
          [] dir = "right" -> [h EXCEPT !.x = Clamp(@ + n)]
          [] dir = "left"  -> [h EXCEPT !.x = Clamp(@ - n)]
          [] dir = "home"  -> HeadHome

(***************************************************************************)
(* VideoHost: the status fields                                            *)
(***************************************************************************)
Status(text, n) == [text |-> text, n |-> n]

\* A Camera object.
OpenCamera == [opened |-> TRUE]

\* hasattr(obj, name): an object is the record of its attributes.
hasattr(obj, name) == name \in DOMAIN obj

\* VideoHost.__init__: the fields as the constructor leaves them.  It assigns
\* no attribute detector.
FreshHost ==
    [ current_status |-> Status("Initializing...", 0),
      movement_info |-> None, head_movement_info |-> None,
      camera |-> None, shutdown_flag |-> FALSE ]

\* The same with the status history, which the code never trims.
FreshHostLogged == FreshHost @@ [status_history |-> <<>>]

\* How opening the camera can go: Camera() raises, the test frame is None,
\* get_frame raises, or a frame comes back.
CameraStartups == {"no_camera", "no_frame", "frame_raises", "ok"}

\* VideoHost.init_camera: the host afterwards and the value returned.
init_camera(h, outcome) ==
    IF h.camera # None THEN [host |-> h, ret |-> TRUE]
    ELSE IF outcome = "no_camera" THEN [host |-> h, ret |-> FALSE]
    ELSE [host |-> [h EXCEPT !.camera = OpenCamera], ret |-> outcome = "ok"]

\* The host when the control thread is started: the camera opened, the server
\* started, "Server initialized" published.  The specifications of the control
\* loop run without end, so they follow the host without its history.
NewHost ==
    [ current_status |-> Status("Server initialized, starting main sequence...", 0),
      movement_info |-> None, head_movement_info |-> None,
      camera |-> OpenCamera, shutdown_flag |-> FALSE, detector |-> "MotionDetector" ]

\* VideoHost.set_detector: self.detector = detector, a reference to the one
\* MotionDetector of the program.
set_detector(h) == [detector |-> "MotionDetector"] @@ h

\* VideoHost.start, as far as the host's fields go: the server thread is
\* started and the status set, without a line in the history.
start(h) == [h EXCEPT !.current_status = Status("Server started", 0)]

\* VideoHost.update_status: append the line to the history, set the status.
update_status(h, status) ==
    IF "status_history" \in DOMAIN h
    THEN [h EXCEPT !.status_history = Append(@, status), !.current_status = status]
    ELSE [h EXCEPT !.current_status = status]

\* VideoHost.cleanup
cleanup(h) == [h EXCEPT !.camera = None]

\* if not isinstance(info, dict): info = {'status': str(info)}.  A value that
\* is not a dict is written [nondict |-> text], text being its str().
as_dict(info) ==
    IF "nondict" \in DOMAIN info THEN [status |-> Status(info.nondict, 0)] ELSE info

\* if key not in info: info[key] = value
with_default(info, key, value) ==
    IF key \in DOMAIN info THEN info ELSE info @@ (key :> value)

\* The required fields of update_movement_info.
movement_defaults(info) ==
    with_default(
      with_default(
        with_default(
          with_default(info, "status", Status("Moving", 0)),
          "position", [x |-> 0, y |-> 0, angle |-> 0]),
        "progress", None),
      "details", None)

\* The required fields of update_head_movement: 'status' is not among them.
head_defaults(info) ==
    with_default(with_default(with_default(info, "x", 0), "y", 0), "target", None)

\* VideoHost.update_movement_info
update_movement_info(h, info) ==
    LET filled == movement_defaults(as_dict(info))
    IN  update_status([h EXCEPT !.movement_info = filled], filled.status)

\* update_head_movement raises on info['status']: KeyError.
head_update_raises(info) == "status" \notin DOMAIN head_defaults(as_dict(info))

\* VideoHost.update_head_movement: the record is stored before info['status']
\* is read, so a call that raises has stored it.
update_head_movement(h, info) ==
    LET filled == head_defaults(as_dict(info))
        stored == [h EXCEPT !.head_movement_info = filled]
    IN  IF head_update_raises(info) THEN stored ELSE update_status(stored, filled.status)

(***************************************************************************)
(* move_to_object: the plan, the pose and the clock                        *)
(***************************************************************************)
\* No turn at or below this bearing, in tenths of a degree.
TurnDeadband == 50

\* Degrees per turn step cycle, in tenths, and the most cycles of one turn.
TurnStepAngle == 100

MaxTurnSteps == 4

\* The advance: its duration, and the parts the distance is divided into.
ForwardDuration == 200

ForwardParts == 5

\* The pauses after each leg command and after each cycle.
StepPause == 2

CyclePause == 5

\* The time one move.move call takes: a fast bus and a slow one.
FastBus == 0

SlowBus == 48

\* int(): truncation towards zero.
TruncDiv(a, b) == IF a >= 0 THEN a \div b ELSE -((-a) \div b)

\* movement_plan['turn']['direction'] and ['steps'] for the bearing a.
turn_direction(a) == IF a > 0 THEN "right" ELSE "left"

\* A step count that rounds to the nearest ten degrees.
turn_steps_rounded(a) == Min((Abs(a) + 50) \div TurnStepAngle, MaxTurnSteps)

turn_steps(a) == Min(Abs(TruncDiv(a, TurnStepAngle)), MaxTurnSteps)

\* The test that guards the turn phase.
needs_turn(a) == Abs(a) > TurnDeadband

\* current_position at the start of a maneuver.  x and y are in millionths,
\* the angle in 1/120 of a degree (so that turn_angle / steps is exact).
StartPose == [x |-> 0, y |-> 0, angle |-> 0]

\* math.cos and math.sin, times 1000, of the headings the model reaches
\* (given in tenths of a degree, taken without sign).
Cos1000(t) ==
    CASE t = 0 -> 1000 [] t = 100 -> 985 [] t = 120 -> 978 [] t = 225 -> 924
      [] t = 370 -> 799 [] t = 400 -> 766 [] t = 450 -> 707 [] t = 600 -> 500

Sin1000(t) ==
    CASE t = 0 -> 0 [] t = 100 -> 174 [] t = 120 -> 208 [] t = 225 -> 383
      [] t = 370 -> 602 [] t = 400 -> 643 [] t = 450 -> 707 [] t = 600 -> 866

CosOf(angle) == Cos1000(Abs(angle) \div 12)

SinOf(angle) == IF angle < 0 THEN -Sin1000((-angle) \div 12) ELSE Sin1000(angle \div 12)

\* current_position['angle'] += (turn_angle/steps) * (1 if left else -1)
TurnedPose(pose, turn_angle, steps, direction) ==
    [pose EXCEPT !.angle = @ + ((turn_angle * 12) \div steps)
                                 * (IF direction = "left" THEN 1 ELSE -1)]

\* An advance that adds the whole distance in every cycle.
AdvancedPoseWhole(pose, distance) ==
    [pose EXCEPT !.x = @ + distance * CosOf(pose.angle),
                 !.y = @ + distance * SinOf(pose.angle)]

\* x += distance/5 * cos(angle);  y += distance/5 * sin(angle)
AdvancedPose(pose, distance) ==
    LET step_distance == distance \div ForwardParts
    IN  [pose EXCEPT !.x = @ + step_distance * CosOf(pose.angle),
                     !.y = @ + step_distance * SinOf(pose.angle)]

\* progress = min(elapsed / 2.0 * 100, 100)
ProgressOf(elapsed) == Min(elapsed \div 2, 100)

\* The movement_info dict handed to update_movement_info.
MovementInfo(text, n, pose) == [status |-> Status(text, n), position |-> pose]

\* The control thread's locals outside a maneuver.
NewLocals ==
    [ position |-> None, last_position |-> None, last_head_position |-> None,
      delta |-> None, direction |-> "left", steps |-> 0, step |-> 0, leg |-> 0,
      current_position |-> StartPose, step_count |-> 0, elapsed |-> 0,
      contour |-> None ]


(***************************************************************************)
(* Threads.  "ctl" runs sequence_with_status, "seq" a caller of            *)
(* perform_movement_sequence, "main" the main thread after it has started  *)
(* the control thread.  When the main thread exits the process ends.       *)
(***************************************************************************)
Alive == pc["main"] # "exited"

At(t, l) == Alive /\ pc[t] = l

Goto(t, l) == pc' = [pc EXCEPT ![t] = l]

\* The with servo_lock statements: where each is entered, and the first
\* statement inside it.
AcquireThen ==
    "init_acq" :> "init_clean" @@ "head_acq" :> "head_x" @@
    "head_x_look" :> "head_x_do" @@ "head_y_look" :> "head_y_do" @@
    "store_acq" :> "store_head" @@ "turn_acq" :> "turn_leg" @@
    "fwd_acq" :> "fwd_leg" @@ "stand_acq" :> "stand" @@
    "fatal_acq" :> "fatal_clean" @@ "seq_acq" :> "seq_call" @@
    "sd_acq" :> "sd_clean"

\* The statements that are calls on the actuator driver.
BusPcs ==
    {"init_clean", "init_all", "init_home", "head_x_do", "head_y_do", "turn_leg",
     "fwd_leg", "stand", "fatal_clean", "seq_call", "sd_clean"}

\* The statements inside a with servo_lock block.
GuardedPcs == BusPcs \cup {"head_x", "head_y", "head_x_look", "head_y_look", "store_head"}

\* Entering a with servo_lock block.
Acquire(t) ==
    /\ Alive
    /\ pc[t] \in DOMAIN AcquireThen
    /\ CanAcquire(t)
    /\ servo_lock' = t
    /\ Goto(t, AcquireThen[pc[t]])
    /\ UNCHANGED <<detVars, loc, seq_i, head, bus_last, host, bus_time, led, webVars>>

\* The led.colorWipe commands of the control thread, each in its own
\* try/except: failing or not, control goes on to the same statement.
LedThen ==
    "led_start" :> "cycle" @@ "cycle" :> "cycle_reset" @@ "led_detect" :> "mv_begin" @@
    "led_cycle_end" :> "cycle" @@ "cycle_err" :> "cycle" @@
    "fatal_led" :> "fatal_acq" @@ "final" :> "done"

\* The colour each of them asks for: red at the head of a scan cycle, off
\* everywhere else.
LedColour(l) == IF l = "cycle" THEN "red" ELSE "off"

\* An LED command whose failure ends the scan cycle.
AfterLedRaise(l, ok) == IF ok THEN LedThen[l] ELSE "cycle_err"

\* Where control goes after the LED command at l, returned (ok) or raised.
AfterLed(l, ok) == LedThen[l]

Led ==
    /\ Alive
    /\ pc["ctl"] \in DOMAIN LedThen
    /\ \E ok \in BOOLEAN :
        /\ led' = IF ok THEN LedColour(pc["ctl"]) ELSE led
        /\ Goto("ctl", AfterLed(pc["ctl"], ok))
    /\ UNCHANGED <<detVars, servo_lock, loc, seq_i, head, bus_last, host, bus_time, webVars>>

\* sequence_with_status: the first publish.
CtlStart ==
    /\ At("ctl", "start")
    /\ host' = update_status(host, Status("Initializing robot position...", 0))
    /\ Goto("ctl", "init_acq")
    /\ UNCHANGED <<detVars, servo_lock, loc, seq_i, head, bus_last, bus_time, led, webVars>>

\* initialize_robot: clean_all, init_all, look_home under one with block.  An
\* exception leaves the block and reaches the outer handler.
InitializeRobot ==
    /\ Alive
    /\ pc["ctl"] \in {"init_clean", "init_all", "init_home"}
    /\ \E ok \in BOOLEAN :
        LET op == CASE pc["ctl"] = "init_clean" -> "clean_all"
                    [] pc["ctl"] = "init_all" -> "init_all"
                    [] pc["ctl"] = "init_home" -> "look_home"
        IN  /\ bus_last' = BusRecord("ctl", op, 0, "-", ok)
            /\ IF ~ok
               THEN /\ servo_lock' = AfterRaise("ctl")
                    /\ Goto("ctl", "fatal")
                    /\ UNCHANGED head
               ELSE IF pc["ctl"] = "init_home"
               THEN /\ servo_lock' = AfterWith("ctl")
                    /\ head' = LookEffect(head, "home", 0)
                    /\ Goto("ctl", "led_start")
               ELSE /\ Goto("ctl", IF pc["ctl"] = "init_clean" THEN "init_all" ELSE "init_home")
                    /\ UNCHANGED <<servo_lock, head>>
    /\ UNCHANGED <<detVars, loc, seq_i, host, bus_time, led, webVars>>

\* The outer except clause: publish the error, then clean_all under the lock.
Fatal ==
    /\ At("ctl", "fatal")
    /\ host' = update_status(host, Status("Error in main sequence", 0))
    /\ Goto("ctl", "fatal_led")
    /\ UNCHANGED <<detVars, servo_lock, loc, seq_i, head, bus_last, bus_time, led, webVars>>

FatalClean ==
    /\ At("ctl", "fatal_clean")
    /\ \E ok \in BOOLEAN :
        /\ bus_last' = BusRecord("ctl", "clean_all", 0, "-", ok)
        /\ servo_lock' = IF ok THEN AfterWith("ctl") ELSE AfterRaise("ctl")
    /\ Goto("ctl", "final")
    /\ UNCHANGED <<detVars, loc, seq_i, head, host, bus_time, led, webVars>>

\* The head of one scan cycle: publish, reset the detector, and decide whether
\* to look back at the last detection.
CycleBegin ==
    /\ At("ctl", "cycle_reset")
    /\ host' = update_status(host, Status("Starting detection sequence...", 0))
    /\ detector' = reset_detection(detector)
    /\ det_fresh' = TRUE
    /\ det_call' = NoCall
    /\ loc' = [loc EXCEPT !.position = None]
    /\ Goto("ctl", IF loc.last_position # None /\ loc.last_head_position # None
                   THEN "head_calc" ELSE "scan_test")
    /\ UNCHANGED <<servo_lock, seq_i, head, bus_last, bus_time, led, webVars>>

\* head_movement_info: the delta from the current head position to the last
\* one, published before the head is moved.
HeadCalc ==
    /\ At("ctl", "head_calc")
    /\ LET delta == [x |-> loc.last_head_position.x - head.x,
                     y |-> loc.last_head_position.y - head.y]
           info == [status |-> Status("Calculating head movement...", 0),
                    x |-> head.x, y |-> head.y, target |-> loc.last_head_position,
                    delta |-> delta]
       IN  /\ loc' = [loc EXCEPT !.delta = delta]
           /\ host' = update_status(
                        update_head_movement(
                          update_status(host,
                            Status("Calculating head movement to last position...", 0)),
                          info),
                        Status("Moving head to last detected position...", 0))
    /\ Goto("ctl", "head_acq")
    /\ UNCHANGED <<detVars, servo_lock, seq_i, head, bus_last, bus_time, led, webVars>>

\* Inside with servo_lock: for each axis with a non-zero delta, publish and
\* call safe_look; then leave the block.
HeadAxis ==
    /\ Alive
    /\ pc["ctl"] \in {"head_x", "head_y"}
    /\ LET d == IF pc["ctl"] = "head_x" THEN loc.delta.x ELSE loc.delta.y
       IN  IF d # 0
           THEN /\ host' = update_status(host, Status("Adjusting head", Abs(d)))
                /\ Goto("ctl", IF pc["ctl"] = "head_x" THEN "head_x_look" ELSE "head_y_look")
                /\ UNCHANGED servo_lock
           ELSE IF pc["ctl"] = "head_x"
           THEN /\ Goto("ctl", "head_y")
                /\ UNCHANGED <<servo_lock, host>>
           ELSE IF servo_lock = "ctl"
           THEN /\ servo_lock' = AfterWith("ctl")
                /\ Goto("ctl", "scan_test")
                /\ UNCHANGED host
           ELSE /\ Goto("ctl", "cycle_err")      \* releasing an unlocked lock raises
                /\ UNCHANGED <<servo_lock, host>>
    /\ UNCHANGED <<detVars, loc, seq_i, head, bus_last, bus_time, led, webVars>>

\* while not position and not detector.is_moving
ScanTest ==
    /\ At("ctl", "scan_test")
    /\ Goto("ctl", IF loc.position = None /\ ~detector.is_moving
                   THEN "detect" ELSE "led_cycle_end")
    /\ UNCHANGED <<detVars, servo_lock, loc, seq_i, head, bus_last, host, bus_time, led, webVars>>

\* Scans without a detection the model follows in one scan cycle.
MaxScans == 1

\* What the camera and the contour search give the control loop.
LoopCameraOutcomes == {NoFrame, CameraRaises, Undecodable, [kind |-> "img", id |-> 1]}

LoopContourLists == {<<>>, <<RightContour>>}

\* detect_motion on a detection, up to the write of last_detection_image: the
\* record and the flag are written by the statements after it.
UpToImage(d, r) ==
    [r.det EXCEPT !.detection_info = d.detection_info,
                  !.motion_detected = d.motion_detected]

\* One pass of the scan loop: detect_motion, and once a second the
\* "Scanning" publish.  A call that detects stops after it has written the
\* image; a call that returns None is done in one step.
Detect ==
    /\ At("ctl", "detect")
    /\ \E cam \in LoopCameraOutcomes, cs \in LoopContourLists, periodic \in BOOLEAN :
        /\ cam \notin Images => cs = <<>>
        /\ LET r == detect_motion(detector, cam, cs)
           IN  /\ detector.scan_count >= MaxScans => r.ret # None
               /\ det_call' = CallRecord(detector, cam, cs, det_fresh, r)
               /\ det_fresh' = FALSE
               /\ IF r.ret # None
                  THEN /\ detector' = UpToImage(detector, r)
                       /\ loc' = [loc EXCEPT !.contour = largest_contour(cs)]
                       /\ Goto("ctl", "detect_info")
                       /\ UNCHANGED host
                  ELSE /\ detector' = r.det
                       /\ loc' = [loc EXCEPT !.position = None]
                       /\ host' = IF periodic
                                  THEN update_status(host, Status("Scanning for movement...", 0))
                                  ELSE host
                       /\ Goto("ctl", "scan_test")
    /\ UNCHANGED <<servo_lock, seq_i, head, bus_last, bus_time, led, webVars>>

\* The rest of a detecting call: detection_info, motion_detected, the return
\* of object_position; then the periodic publish of the scan loop.
DetectInfo ==
    /\ At("ctl", "detect_info")
    /\ \E periodic \in BOOLEAN :
        /\ detector' = [detector EXCEPT !.detection_info = InfoOf(loc.contour),
                                        !.motion_detected = TRUE]
        /\ loc' = [loc EXCEPT !.position = detector.object_position, !.contour = None]
        /\ host' = IF periodic
                   THEN update_status(host, Status("Scanning for movement...", 0))
                   ELSE host
    /\ Goto("ctl", "detected")
    /\ UNCHANGED <<det_call, det_fresh, servo_lock, seq_i, head, bus_last, bus_time, led, webVars>>

Detected ==
    /\ At("ctl", "detected")
    /\ host' = update_status(host, Status("Motion detected! Moving to target...", 0))
    /\ Goto("ctl", "store_acq")
    /\ UNCHANGED <<detVars, servo_lock, loc, seq_i, head, bus_last, bus_time, led, webVars>>

\* Under the lock: remember the head position; then remember the detection.
StoreHead ==
    /\ At("ctl", "store_head")
    /\ loc' = [loc EXCEPT !.last_head_position = head, !.last_position = loc.position]
    /\ servo_lock' = AfterWith("ctl")
    /\ Goto("ctl", "led_detect")
    /\ UNCHANGED <<detVars, seq_i, head, bus_last, host, bus_time, led, webVars>>

(***************************************************************************)
(* move_to_object                                                          *)
(***************************************************************************)
\* The locals of move_to_object are gone once it is left.
LeaveManeuver(l) ==
    [l EXCEPT !.direction = "left", !.steps = 0, !.step = 0, !.leg = 0,
              !.current_position = StartPose, !.step_count = 0, !.elapsed = 0]

\* An empty position returns at once.  Otherwise: the moving flag, the plan,
\* the pose at the origin, and the first publish.
MoveBegin ==
    /\ At("ctl", "mv_begin")
    /\ IF loc.position = None
       THEN /\ Goto("ctl", "mv_return")
            /\ UNCHANGED <<detVars, loc, host>>
       ELSE LET turn_angle == loc.position.angle_x
            IN  /\ detector' = begin_moving(detector)
                /\ det_call' = NoCall
                /\ UNCHANGED det_fresh
                /\ loc' = [loc EXCEPT !.direction = turn_direction(turn_angle),
                                      !.steps = turn_steps(turn_angle),
                                      !.step = 0,
                                      !.current_position = StartPose]
                /\ host' = update_movement_info(host,
                              MovementInfo("Calculating movement path...", 0, StartPose))
                /\ Goto("ctl", IF needs_turn(turn_angle) THEN "turn_pub" ELSE "fwd_start")
    /\ UNCHANGED <<servo_lock, seq_i, head, bus_last, bus_time, led, webVars>>

\* The "Turning" publish, and the head of the for loop over the turn steps.
TurnPublish ==
    /\ At("ctl", "turn_pub")
    /\ host' = update_movement_info(host,
                  MovementInfo("Turning " \o loc.direction, loc.steps, loc.current_position))
    /\ loc' = [loc EXCEPT !.leg = IF loc.steps > 0 THEN 1 ELSE 0]
    /\ Goto("ctl", IF loc.steps > 0 THEN "turn_acq" ELSE "fwd_start")
    /\ UNCHANGED <<detVars, servo_lock, seq_i, head, bus_last, bus_time, led, webVars>>

\* A failed leg command that reaches the outer handler and ends the loop.
LegFailureFatal == "fatal"

\* Where a failed leg command of move_to_object leaves the control thread:
\* nothing in move_to_object catches it, so it reaches the handler of the
\* scan cycle.
AfterLegFailure == "cycle_err"

\* A maneuver that keeps the lock from one step cycle to the next.
CycleKeepsLock(t) == t

\* The lock after the fourth leg of a step cycle: its with block is left.
AfterCycle(t) == AfterWith(t)

\* One move.move call of a step cycle, made under the lock.  After the fourth
\* leg the block is left.
LegStep ==
    /\ Alive
    /\ pc["ctl"] \in {"turn_leg", "fwd_leg"}
    /\ \E ok \in BOOLEAN :
        LET turning == pc["ctl"] = "turn_leg"
            rec == BusRecord("ctl", "move", loc.leg, IF turning THEN loc.direction ELSE "no", ok)
            later == IF turning THEN loc.elapsed
                     ELSE Min(loc.elapsed + bus_time + StepPause, ForwardDuration)
        IN  /\ bus_last' = rec
            /\ IF ~ok
               THEN /\ servo_lock' = AfterRaise("ctl")
                    /\ loc' = LeaveManeuver(loc)
                    /\ Goto("ctl", AfterLegFailure)
               ELSE IF loc.leg < 4
               THEN /\ loc' = [loc EXCEPT !.leg = @ + 1, !.elapsed = later]
                    /\ UNCHANGED <<servo_lock, pc>>
               ELSE /\ servo_lock' = AfterCycle("ctl")
                    /\ loc' = [loc EXCEPT !.leg = 0, !.elapsed = later]
                    /\ Goto("ctl", IF turning THEN "turn_upd" ELSE "fwd_upd")
    /\ UNCHANGED <<detVars, seq_i, head, host, bus_time, led, webVars>>

\* After one turn cycle: current_position['angle'] += ...  The dict is the one
\* movement_info['position'] refers to, and movement_info is the dict the
\* host has stored since the first publish of the maneuver, so the change
\* shows in host.movement_info at once.
TurnUpdate ==
    /\ At("ctl", "turn_upd")
    /\ LET pose == TurnedPose(loc.current_position, loc.position.angle_x,
                              loc.steps, loc.direction)
       IN  /\ loc' = [loc EXCEPT !.current_position = pose, !.step = @ + 1]
           /\ host' = [host EXCEPT !.movement_info.position = pose]
    /\ Goto("ctl", "turn_prog")
    /\ UNCHANGED <<detVars, servo_lock, seq_i, head, bus_last, bus_time, led, webVars>>

\* The 'Turn progress' publish of the cycle, and the next step.
TurnProgress ==
    /\ At("ctl", "turn_prog")
    /\ LET more == loc.step < loc.steps
       IN  /\ loc' = [loc EXCEPT !.leg = IF more THEN 1 ELSE 0]
           /\ host' = update_movement_info(host,
                         MovementInfo("Turn progress", loc.step, loc.current_position))
           /\ Goto("ctl", IF more THEN "turn_acq" ELSE "fwd_start")
    /\ UNCHANGED <<detVars, servo_lock, seq_i, head, bus_last, bus_time, led, webVars>>

\* start_time = time.time(); step_count = 0; the "Moving forward" publish.
ForwardStart ==
    /\ At("ctl", "fwd_start")
    /\ loc' = [loc EXCEPT !.elapsed = 0, !.step_count = 0]
    /\ host' = update_movement_info(host,
                  MovementInfo("Moving forward", 0, loc.current_position))
    /\ Goto("ctl", "fwd_test")
    /\ UNCHANGED <<detVars, servo_lock, seq_i, head, bus_last, bus_time, led, webVars>>

\* while time.time() - start_time < 2
ForwardTest ==
    /\ At("ctl", "fwd_test")
    /\ IF loc.elapsed < ForwardDuration
       THEN /\ loc' = [loc EXCEPT !.leg = 1]
            /\ Goto("ctl", "fwd_acq")
       ELSE /\ Goto("ctl", "stand_acq")
            /\ UNCHANGED loc
    /\ UNCHANGED <<detVars, servo_lock, seq_i, head, bus_last, host, bus_time, led, webVars>>

\* A forward loop that goes back to the turn loop.
AfterForwardCycleTurns == "turn_acq"

\* Where control goes after one forward cycle: back to the while test.
AfterForwardCycle == "fwd_test"

\* After one forward cycle: the pause, the count, the progress and the pose,
\* which changes in the dict the host has stored as in TurnUpdate.
ForwardUpdate ==
    /\ At("ctl", "fwd_upd")
    /\ LET pose == AdvancedPose(loc.current_position, loc.position.distance)
           later == Min(loc.elapsed + CyclePause, ForwardDuration)
       IN  /\ loc' = [loc EXCEPT !.current_position = pose, !.step_count = @ + 1,
                                 !.elapsed = later]
           /\ host' = [host EXCEPT !.movement_info.position = pose]
    /\ Goto("ctl", "fwd_prog")
    /\ UNCHANGED <<detVars, servo_lock, seq_i, head, bus_last, bus_time, led, webVars>>

\* The 'Forward progress' publish of the cycle.
ForwardProgress ==
    /\ At("ctl", "fwd_prog")
    /\ host' = update_movement_info(host,
                  [status |-> Status("Forward progress", loc.step_count),
                   position |-> loc.current_position,
                   progress |-> ProgressOf(loc.elapsed)])
    /\ Goto("ctl", AfterForwardCycle)
    /\ UNCHANGED <<detVars, servo_lock, loc, seq_i, head, bus_last, bus_time, led, webVars>>

\* move.stand() and the completion publish, both under the lock.
Stand ==
    /\ At("ctl", "stand")
    /\ \E ok \in BOOLEAN :
        /\ bus_last' = BusRecord("ctl", "stand", 0, "-", ok)
        /\ IF ok
           THEN /\ host' = update_movement_info(host,
                              MovementInfo("Movement complete. Standing by.", 0,
                                           loc.current_position))
                /\ servo_lock' = AfterWith("ctl")
                /\ Goto("ctl", "mv_end")
                /\ UNCHANGED loc
           ELSE /\ servo_lock' = AfterRaise("ctl")
                /\ loc' = LeaveManeuver(loc)
                /\ Goto("ctl", "cycle_err")
                /\ UNCHANGED host
    /\ UNCHANGED <<detVars, seq_i, head, bus_time, led, webVars>>

\* The tail of move_to_object: the moving flag, the image, the record.
MoveFinish ==
    /\ Alive
    /\ pc["ctl"] \in {"mv_end", "mv_clear_image", "mv_clear_info"}
    /\ CASE pc["ctl"] = "mv_end" ->
              /\ detector' = end_moving(detector)
              /\ Goto("ctl", "mv_clear_image")
              /\ UNCHANGED loc
         [] pc["ctl"] = "mv_clear_image" ->
              /\ detector' = clear_image(detector)
              /\ Goto("ctl", "mv_clear_info")
              /\ UNCHANGED loc
         [] pc["ctl"] = "mv_clear_info" ->
              /\ detector' = clear_info(detector)
              /\ loc' = LeaveManeuver(loc)
              /\ Goto("ctl", "mv_return")
    /\ det_call' = NoCall
    /\ UNCHANGED <<det_fresh, servo_lock, seq_i, head, bus_last, host, bus_time, led, webVars>>

\* Back in the scan loop after move_to_object has returned.
MoveReturn ==
    /\ At("ctl", "mv_return")
    /\ host' = update_status(host, Status("Movement complete - Starting new scan...", 0))
    /\ Goto("ctl", "led_cycle_end")
    /\ UNCHANGED <<detVars, servo_lock, loc, seq_i, head, bus_last, bus_time, led, webVars>>

(***************************************************************************)
(* perform_movement_sequence, safe_move, safe_look                         *)
(***************************************************************************)
Command(op, leg, dir) == [op |-> op, leg |-> leg, dir |-> dir]

StepCycle(dir) ==
    <<Command("move", 1, dir), Command("move", 2, dir),
      Command("move", 3, dir), Command("move", 4, dir)>>

\* The commands of perform_movement_sequence, in order.
SeqProgram ==
    <<Command("init_all", 0, "-")>>
    \o StepCycle("no") \o StepCycle("no") \o StepCycle("left") \o StepCycle("left")
    \o <<Command("look", 0, "up"), Command("look", 0, "down"), Command("look", 0, "left"),
         Command("look", 0, "right"), Command("look", 0, "home")>>

\* After a command of the sequence: the next one, or the end; an exception
\* ends the thread.
SeqAdvance(ok) ==
    IF ok /\ seq_i < Len(SeqProgram)
    THEN /\ seq_i' = seq_i + 1
         /\ Goto("seq", "seq_acq")
    ELSE /\ seq_i' = 0
         /\ Goto("seq", "seq_done")

\* with servo_lock: move.init_all()
SeqInitAll ==
    /\ At("seq", "seq_call")
    /\ SeqProgram[seq_i].op = "init_all"
    /\ \E ok \in BOOLEAN :
        /\ bus_last' = BusRecord("seq", "init_all", 0, "-", ok)
        /\ servo_lock' = IF ok THEN AfterWith("seq") ELSE AfterRaise("seq")
        /\ SeqAdvance(ok)
    /\ UNCHANGED <<detVars, loc, head, host, bus_time, led, webVars>>

\* safe_move: one move.move call under the lock.
SafeMove ==
    /\ At("seq", "seq_call")
    /\ SeqProgram[seq_i].op = "move"
    /\ \E ok \in BOOLEAN :
        LET rec == BusRecord("seq", "move", SeqProgram[seq_i].leg, SeqProgram[seq_i].dir, ok)
        IN  /\ bus_last' = rec
            /\ servo_lock' = IF ok THEN AfterWith("seq") ELSE AfterRaise("seq")
            /\ SeqAdvance(ok)
    /\ UNCHANGED <<detVars, loc, head, host, bus_time, led, webVars>>

\* safe_look: one look command under the lock; called by the sequence, and by
\* the control thread from inside its own with servo_lock block.
SafeLook(t) ==
    /\ Alive
    /\ \/ t = "seq" /\ pc[t] = "seq_call" /\ SeqProgram[seq_i].op = "look"
       \/ t = "ctl" /\ pc[t] \in {"head_x_do", "head_y_do"}
    /\ \E ok \in BOOLEAN :
        LET d == IF t = "seq" THEN 0
                 ELSE IF pc[t] = "head_x_do" THEN loc.delta.x ELSE loc.delta.y
            dir == IF t = "seq" THEN SeqProgram[seq_i].dir
                   ELSE IF pc[t] = "head_x_do"
                        THEN (IF d > 0 THEN "right" ELSE "left")
                        ELSE (IF d > 0 THEN "up" ELSE "down")
        IN  /\ bus_last' = BusRecord(t, "look", 0, dir, ok)
            /\ head' = IF ok THEN LookEffect(head, dir, Abs(d)) ELSE head
            /\ servo_lock' = IF ok THEN AfterWith(t) ELSE AfterRaise(t)
            /\ IF t = "seq"
               THEN SeqAdvance(ok)
               ELSE /\ Goto(t, IF ok /\ pc[t] = "head_x_do" THEN "head_y" ELSE "cycle_err")
                    /\ UNCHANGED seq_i
    /\ UNCHANGED <<detVars, loc, host, bus_time, led, webVars>>

(***************************************************************************)
(* The main thread, once the control thread runs: the ready publish, and   *)
(* the KeyboardInterrupt handler                                           *)
(***************************************************************************)
MainReady ==
    /\ At("main", "ready")
    /\ host' = update_status(host, Status("System ready - Motion detection active", 0))
    /\ Goto("main", "run")
    /\ UNCHANGED <<detVars, servo_lock, loc, seq_i, head, bus_last, bus_time, led, webVars>>

Interrupt ==
    /\ Alive
    /\ pc["main"] \in {"ready", "run"}
    /\ host' = update_status(host, Status("Shutting down...", 0))
    /\ Goto("main", "sd_acq")
    /\ UNCHANGED <<detVars, servo_lock, loc, seq_i, head, bus_last, bus_time, led, webVars>>

\* with servo_lock: move.clean_all(); then the process ends, whether the call
\* returned or raised.
ShutdownClean ==
    /\ At("main", "sd_clean")
    /\ \E ok \in BOOLEAN :
        /\ bus_last' = BusRecord("main", "clean_all", 0, "-", ok)
        /\ servo_lock' = IF ok THEN AfterWith("main") ELSE AfterRaise("main")
    /\ host' = cleanup(host)
    /\ Goto("main", "exited")
    /\ UNCHANGED <<detVars, loc, seq_i, head, bus_time, led, webVars>>

(***************************************************************************)
(* The whole program: the control thread, a caller of                      *)
(* perform_movement_sequence, and the main thread                          *)
(***************************************************************************)
Init ==
    /\ detector = NewDetector
    /\ det_call = NoCall
    /\ det_fresh = TRUE
    /\ servo_lock = Free
    /\ pc = [t \in Threads |-> CASE t = "ctl" -> "start"
                                 [] t = "seq" -> "seq_acq"
                                 [] t = "main" -> "ready"
                                 [] t = "http" -> "http_off"]
    /\ loc = NewLocals
    /\ seq_i = 1
    /\ head = HeadHome
    /\ bus_last = NoBus
    /\ host = NewHost
    /\ bus_time = SlowBus
    /\ led = "off"
    /\ published = <<>>
    /\ status_data = None

ExecNext ==
    \/ MoveBegin \/ TurnPublish \/ LegStep \/ TurnUpdate \/ TurnProgress
    \/ ForwardStart \/ ForwardTest \/ ForwardUpdate \/ ForwardProgress
    \/ Stand \/ MoveFinish

CtlNext ==
    \/ CtlStart \/ InitializeRobot \/ Fatal \/ FatalClean \/ Led \/ CycleBegin
    \/ HeadCalc \/ HeadAxis \/ ScanTest \/ Detect \/ DetectInfo \/ Detected \/ StoreHead
    \/ ExecNext \/ MoveReturn

SeqNext == SeqInitAll \/ SafeMove

MainNext == MainReady \/ Interrupt \/ ShutdownClean

Next ==
    \/ CtlNext \/ SeqNext \/ MainNext
    \/ \E t \in Threads : Acquire(t)
    \/ \E t \in {"ctl", "seq"} : SafeLook(t)

Spec == Init /\ [][Next]_vars

(***************************************************************************)
(* move_to_object on its own: one call, on any position                    *)
(***************************************************************************)
\* The bearings (tenths of a degree) and distances (thousandths) tried.
ExecBearings == {-600, -370, -100, -99, -50, 0, 50, 60, 100, 370, 400, 450}

ExecDistances == {0, 5000}

ExecPositions ==
    {[angle_x |-> a, angle_y |-> 0, distance |-> d] : a \in ExecBearings, d \in ExecDistances}

\* The detector as a detection of position p leaves it.
DetectorHolding(p) ==
    IF p = None THEN NewDetector
    ELSE [NewDetector EXCEPT !.avg = [seed |-> 1, blends |-> 1],
                             !.scan_count = 1,
                             !.motion_detected = TRUE,
                             !.object_position = p,
                             !.last_detection_image = [frame |-> 1],
                             !.detection_info = [position |-> p]]

ExecInit ==
    /\ \E p \in ExecPositions \cup {None} :
        /\ detector = DetectorHolding(p)
        /\ loc = [NewLocals EXCEPT !.position = p]
    /\ det_call = NoCall
    /\ det_fresh = FALSE
    /\ servo_lock = Free
    /\ pc = [t \in Threads |-> CASE t = "ctl" -> "mv_begin"
                                 [] t = "seq" -> "seq_done"
                                 [] t = "main" -> "run"
                                 [] t = "http" -> "http_off"]
    /\ seq_i = 0
    /\ head = HeadHome
    /\ bus_last = NoBus
    /\ host = NewHost
    /\ bus_time \in {FastBus, SlowBus}
    /\ led = "off"
    /\ published = <<>>
    /\ status_data = None

SpecExec == ExecInit /\ [][ExecNext \/ Acquire("ctl")]_vars

(***************************************************************************)
(* The detector alone, driven by any caller: detect_motion on any camera   *)
(* outcome, reset_detection, and the executor's writes to its fields.      *)
(***************************************************************************)
DetInit ==
    /\ detector = NewDetector
    /\ det_call = NoCall
    /\ det_fresh = TRUE
    /\ servo_lock = Free
    /\ pc = [t \in Threads |-> CASE t = "ctl" -> "done"
                                 [] t = "seq" -> "seq_done"
                                 [] t = "main" -> "run"
                                 [] t = "http" -> "http_off"]
    /\ loc = NewLocals
    /\ seq_i = 0
    /\ head = HeadHome
    /\ bus_last = NoBus
    /\ host = NewHost
    /\ bus_time = SlowBus
    /\ led = "off"
    /\ published = <<>>
    /\ status_data = None

DetCall ==
    \E cam \in CameraOutcomes, cs \in ContourLists :
        /\ cam \notin Images => cs = <<>>
        /\ LET r == detect_motion(detector, cam, cs)
           IN  /\ detector' = r.det
               /\ det_call' = CallRecord(detector, cam, cs, det_fresh, r)
               /\ det_fresh' = FALSE
    /\ UNCHANGED thrVars

DetReset ==
    /\ detector' = reset_detection(detector)
    /\ det_fresh' = TRUE
    /\ det_call' = NoCall
    /\ UNCHANGED thrVars

DetMoveBegin ==
    /\ ~detector.is_moving
    /\ detector' = begin_moving(detector)
    /\ det_call' = NoCall
    /\ UNCHANGED <<det_fresh, thrVars>>

DetMoveEnd ==
    /\ detector.is_moving
    /\ detector' = clear_info(clear_image(end_moving(detector)))
    /\ det_call' = NoCall
    /\ UNCHANGED <<det_fresh, thrVars>>

DetNext == DetCall \/ DetReset \/ DetMoveBegin \/ DetMoveEnd

SpecDet == DetInit /\ [][DetNext]_vars

(***************************************************************************)
(* One detect_motion call on a detector that is already scanning: any      *)
(* scan count, with or without a detection held, any contours.             *)
(***************************************************************************)
\* More contours: at the left edge of the frame, far right, and one of small
\* area whose box passes the second gate.
EdgeContour == Contour(5000, 0, 0, 22, 480)

FarRightContour == Contour(20000, 490, 100, 150, 150)

SparseContour == Contour(2550, 100, 100, 200, 200)

GateContourLists ==
    { <<>>, <<SmallContour>>, <<ThinContour>>, <<EdgeContour>>, <<RightContour>>,
      <<FarRightContour>>, <<LeftContour>>, <<CenterContour>>,
      <<SmallContour, RightContour>>, <<ThinContour, SmallContour>>,
      <<ThinContour, SparseContour>> }

\* The scan counts the call is made at.
GateScanCounts == {0, 1, 99, 100}

\* A detector seeded from frame 1 that has made k scans since, holding the
\* detection of the contour c (or none).
ScanningDetector(k, c) ==
    LET d == [NewDetector EXCEPT !.avg = [seed |-> 1, blends |-> k], !.scan_count = k]
    IN  IF c = None THEN d
        ELSE [d EXCEPT !.object_position = PositionOf(c),
                       !.last_detection_image = ImageOf([kind |-> "img", id |-> 1], c),
                       !.detection_info = InfoOf(c),
                       !.motion_detected = TRUE]

GateInit ==
    /\ \E k \in GateScanCounts, c \in {None, RightContour, LeftContour} :
        detector = ScanningDetector(k, c)
    /\ det_call = NoCall
    /\ det_fresh = FALSE
    /\ servo_lock = Free
    /\ pc = [t \in Threads |-> CASE t = "ctl" -> "done"
                                 [] t = "seq" -> "seq_done"
                                 [] t = "main" -> "run"
                                 [] t = "http" -> "http_off"]
    /\ loc = NewLocals
    /\ seq_i = 0
    /\ head = HeadHome
    /\ bus_last = NoBus
    /\ host = NewHost
    /\ bus_time = SlowBus
    /\ led = "off"
    /\ published = <<>>
    /\ status_data = None

\* The call, with the contours it was given kept in its record.
GateCall ==
    /\ ~det_call.made
    /\ \E cam \in Images \cup {NoFrame}, cs \in GateContourLists :
        /\ cam \notin Images => cs = <<>>
        /\ LET r == detect_motion(detector, cam, cs)
           IN  /\ detector' = r.det
               /\ det_call' = CallRecord(detector, cam, cs, det_fresh, r) @@ [cs |-> cs]
               /\ det_fresh' = FALSE
    /\ UNCHANGED thrVars

SpecGate == GateInit /\ [][GateCall]_vars

(***************************************************************************)
(* The HTTP side of the host: GET /status and POST /shutdown, served by    *)
(* the thread "http" while the control thread runs.                        *)
(***************************************************************************)
\* Lines of history a status snapshot carries.
HistoryWindow == 10

\* A slice that takes the first lines.
FirstLines(lines) ==
    IF Len(lines) <= HistoryWindow THEN lines ELSE SubSeq(lines, 1, HistoryWindow)

\* self.status_history[-10:]
LastLines(lines) ==
    IF Len(lines) <= HistoryWindow THEN lines
    ELSE SubSeq(lines, Len(lines) - HistoryWindow + 1, Len(lines))

\* The history of the host h, where the specification follows it.
HistoryOf(h) == IF "status_history" \in DOMAIN h THEN h.status_history ELSE <<>>

\* get_status: the status_data dict as first built, of which the model
\* follows the detection fields and the history.
GsBegin ==
    /\ At("http", "http_idle")
    /\ status_data' = [ detection_info |-> None, last_detection_image |-> None,
                        status_history |-> LastLines(HistoryOf(host)) ]
    /\ Goto("http", "gs_check")
    /\ UNCHANGED <<detVars, servo_lock, loc, seq_i, head, bus_last, host, bus_time, led, published>>

\* if self.detector: if self.detector.detection_info:
\* On a host that was never handed a detector, self.detector raises
\* AttributeError: the request ends there, with an error response in place
\* of the snapshot.
GsCheck ==
    /\ At("http", "gs_check")
    /\ IF ~hasattr(host, "detector")
       THEN /\ status_data' = [raised |-> "AttributeError"]
            /\ Goto("http", "http_idle")
       ELSE /\ Goto("http", IF detector.detection_info # None
                            THEN "gs_info" ELSE "gs_return")
            /\ UNCHANGED status_data
    /\ UNCHANGED <<detVars, servo_lock, loc, seq_i, head, bus_last, host, bus_time, led, published>>

\* status_data['detection_info'] = self.detector.detection_info
GsInfo ==
    /\ At("http", "gs_info")
    /\ status_data' = [status_data EXCEPT !.detection_info = detector.detection_info]
    /\ Goto("http", "gs_image")
    /\ UNCHANGED <<detVars, servo_lock, loc, seq_i, head, bus_last, host, bus_time, led, published>>

\* status_data['last_detection_image'] = self.detector.last_detection_image
GsImage ==
    /\ At("http", "gs_image")
    /\ status_data' = [status_data EXCEPT !.last_detection_image = detector.last_detection_image]
    /\ Goto("http", "gs_return")
    /\ UNCHANGED <<detVars, servo_lock, loc, seq_i, head, bus_last, host, bus_time, led, published>>

\* return status_data: the request is done, the snapshot is what was sent.
GsReturn ==
    /\ At("http", "gs_return")
    /\ Goto("http", "http_idle")
    /\ UNCHANGED <<detVars, servo_lock, loc, seq_i, head, bus_last, host, bus_time, led, webVars>>

\* VideoHost.shutdown: POST /shutdown sets the flag.
HttpShutdown ==
    /\ At("http", "http_idle")
    /\ ~host.shutdown_flag
    /\ host' = [host EXCEPT !.shutdown_flag = TRUE]
    /\ UNCHANGED <<detVars, servo_lock, pc, loc, seq_i, head, bus_last, bus_time, led, webVars>>

GetStatus == GsBegin \/ GsCheck \/ GsInfo \/ GsImage \/ GsReturn

(***************************************************************************)
(* The control loop with the HTTP side: the control thread, status         *)
(* requests and a shutdown request.  The control thread keeps running      *)
(* whenever it can take a step.                                            *)
(***************************************************************************)
LoopInit ==
    /\ detector = NewDetector
    /\ det_call = NoCall
    /\ det_fresh = TRUE
    /\ servo_lock = Free
    /\ pc = [t \in Threads |-> CASE t = "ctl" -> "start"
                                 [] t = "seq" -> "seq_done"
                                 [] t = "main" -> "run"
                                 [] t = "http" -> "http_idle"]
    /\ loc = NewLocals
    /\ seq_i = 0
    /\ head = HeadHome
    /\ bus_last = NoBus
    /\ host = NewHost
    /\ bus_time = FastBus
    /\ led = "off"
    /\ published = <<>>
    /\ status_data = None

CtlStep == CtlNext \/ Acquire("ctl")

LoopNext == CtlStep \/ GetStatus \/ HttpShutdown

SpecLoop == LoopInit /\ [][LoopNext]_vars /\ WF_vars(CtlStep)

(***************************************************************************)
(* The program from its start: the main thread opens the camera, starts    *)
(* the server and the control thread, and then waits for the interrupt.    *)
(***************************************************************************)
BootInit ==
    /\ detector = NewDetector
    /\ det_call = NoCall
    /\ det_fresh = TRUE
    /\ servo_lock = Free
    /\ pc = [t \in Threads |-> CASE t = "ctl" -> "unstarted"
                                 [] t = "seq" -> "seq_done"
                                 [] t = "main" -> "boot"
                                 [] t = "http" -> "http_off"]
    /\ loc = NewLocals
    /\ seq_i = 0
    /\ head = HeadHome
    /\ bus_last = NoBus
    /\ host = FreshHost
    /\ bus_time = SlowBus
    /\ led = "off"
    /\ published = <<>>
    /\ status_data = None

\* host.update_status("Initializing camera..."); if not host.init_camera()
BootCamera ==
    /\ At("main", "boot")
    /\ \E outcome \in CameraStartups :
        LET r == init_camera(update_status(host, Status("Initializing camera...", 0)), outcome)
        IN  /\ host' = r.host
            /\ Goto("main", IF r.ret THEN "boot_server" ELSE "boot_fail")
    /\ UNCHANGED <<detVars, servo_lock, loc, seq_i, head, bus_last, bus_time, led, webVars>>

\* The camera did not open: the LEDs off (in a try), then sys.exit(1), which
\* no handler of the main block catches.
BootFail ==
    /\ At("main", "boot_fail")
    /\ \E ok \in BOOLEAN : led' = IF ok THEN "off" ELSE led
    /\ Goto("main", "exited")
    /\ UNCHANGED <<detVars, servo_lock, loc, seq_i, head, bus_last, host, bus_time, webVars>>

\* The detector is made and handed to the host, host.start() starts the
\* server thread and sets the status, and "Server initialized" is published.
BootServer ==
    /\ At("main", "boot_server")
    /\ host' = update_status(
                 start(set_detector(
                     update_status(host, Status("Initializing motion detector...", 0)))),
                 Status("Server initialized, starting main sequence...", 0))
    /\ pc' = [pc EXCEPT !["main"] = "boot_thread", !["http"] = "http_idle"]
    /\ UNCHANGED <<detVars, servo_lock, loc, seq_i, head, bus_last, bus_time, led, webVars>>

\* main_thread.start(): the control thread runs sequence_with_status.
BootThread ==
    /\ At("main", "boot_thread")
    /\ pc' = [pc EXCEPT !["main"] = "ready", !["ctl"] = "start"]
    /\ UNCHANGED <<detVars, servo_lock, loc, seq_i, head, bus_last, host, bus_time, led, webVars>>

BootNext == BootCamera \/ BootFail \/ BootServer \/ BootThread

SpecBoot == BootInit /\ [][BootNext \/ CtlStep \/ MainNext \/ Acquire("main")]_vars

(***************************************************************************)
(* The scan/act loop from the end of a maneuver, with the head anywhere    *)
(* the look commands of another thread can have left it since the          *)
(* detection.  The control thread keeps running whenever it can.           *)
(***************************************************************************)
\* The detection acted upon, and the pose its maneuver ended with (one forward
\* cycle on the slow bus).
HeadLastPosition == PositionOf(CenterContour)

\* The head positions within reach.
HeadPositions ==
    {[x |-> hx, y |-> hy] : hx \in (HeadCenter - HeadSpan)..(HeadCenter + HeadSpan),
                            hy \in (HeadCenter - HeadSpan)..(HeadCenter + HeadSpan)}

HeadInit ==
    /\ detector = [clear_info(clear_image(DetectorHolding(HeadLastPosition)))
                      EXCEPT !.last_motion = None]
    /\ det_call = NoCall
    /\ det_fresh = FALSE
    /\ servo_lock = Free
    /\ pc = [t \in Threads |-> CASE t = "ctl" -> "led_cycle_end"
                                 [] t = "seq" -> "seq_done"
                                 [] t = "main" -> "run"
                                 [] t = "http" -> "http_off"]
    /\ \E h \in HeadPositions :
        /\ head = h
        /\ loc = [NewLocals EXCEPT !.position = HeadLastPosition,
                                   !.last_position = HeadLastPosition,
                                   !.last_head_position = HeadHome]
    /\ seq_i = 0
    /\ bus_last = BusRecord("ctl", "stand", 0, "-", TRUE)
    /\ host = update_status(
                update_movement_info(NewHost,
                    MovementInfo("Movement complete. Standing by.", 0,
                                 AdvancedPose(StartPose, HeadLastPosition.distance))),
                Status("Movement complete - Starting new scan...", 0))
    /\ bus_time = SlowBus
    /\ led = "off"
    /\ published = <<>>
    /\ status_data = None

\* The statements of the loop that can be reached from there.
HeadNext ==
    \/ Led \/ CycleBegin \/ HeadCalc \/ HeadAxis \/ Acquire("ctl") \/ ScanTest
    \/ Detect \/ DetectInfo \/ Detected \/ StoreHead \/ ExecNext \/ MoveReturn

SpecHead == HeadInit /\ [][HeadNext]_vars /\ WF_vars(HeadNext)

(***************************************************************************)
(* The host alone: its three writers and get_status, called one at a time  *)
(* with any lines, on a host that has been handed the detector.            *)
(***************************************************************************)
\* Publishes the model follows.
MaxPublishes == 11

\* The status lines handed to the writers.
HostLines == {Status("line a", 0), Status("line b", 0)}

HostInit ==
    /\ detector = NewDetector
    /\ det_call = NoCall
    /\ det_fresh = TRUE
    /\ servo_lock = Free
    /\ pc = [t \in Threads |-> CASE t = "ctl" -> "done"
                                 [] t = "seq" -> "seq_done"
                                 [] t = "main" -> "run"
                                 [] t = "http" -> "http_idle"]
    /\ loc = NewLocals
    /\ seq_i = 0
    /\ head = HeadHome
    /\ bus_last = NoBus
    /\ host = set_detector(FreshHostLogged)
    /\ bus_time = SlowBus
    /\ led = "off"
    /\ published = <<>>
    /\ status_data = None

\* A writer may be called: no request is being served, and the bound on
\* publishes is not reached.
MayPublish == At("http", "http_idle") /\ Len(published) < MaxPublishes

HostUpdateStatus ==
    /\ MayPublish
    /\ \E line \in HostLines :
        /\ host' = update_status(host, line)
        /\ published' = Append(published, line)
    /\ UNCHANGED <<detVars, servo_lock, pc, loc, seq_i, head, bus_last, bus_time, led, status_data>>

HostUpdateMovement ==
    /\ MayPublish
    /\ \E line \in HostLines :
        /\ host' = update_movement_info(host, [status |-> line, position |-> StartPose])
        /\ published' = Append(published, line)
    /\ UNCHANGED <<detVars, servo_lock, pc, loc, seq_i, head, bus_last, bus_time, led, status_data>>

HostUpdateHead ==
    /\ MayPublish
    /\ \E line \in HostLines :
        /\ host' = update_head_movement(host,
                      [status |-> line, x |-> head.x, y |-> head.y, target |-> head])
        /\ published' = Append(published, line)
    /\ UNCHANGED <<detVars, servo_lock, pc, loc, seq_i, head, bus_last, bus_time, led, status_data>>

HostNext ==
    \/ HostUpdateStatus \/ HostUpdateMovement \/ HostUpdateHead
    \/ GsBegin \/ GsCheck \/ GsReturn

SpecHost == HostInit /\ [][HostNext]_vars

(***************************************************************************)
(* Claims about the detector (checked under SpecDet)                       *)
(***************************************************************************)
\* The last step was a detect_motion call that was handed a decoded frame.
CallOnImage == det_call.made /\ det_call.acquired /\ det_call.cam \in Images

\* The detection outputs of the detector d: record, image, position, flag.
DetectionOutputs(d) ==
    <<d.detection_info, d.last_detection_image, d.object_position, d.motion_detected>>

\* C6: the first detect_motion call after construction or reset_detection that
\* is handed a decodable frame returns None, leaves the background model
\* seeded from that frame, and produces no detection record.
C6_ColdStartSeeds ==
    (CallOnImage /\ det_call.first) =>
        /\ det_call.ret = None
        /\ detector.avg = [seed |-> det_call.cam.id, blends |-> 0]
        /\ DetectionOutputs(detector) = DetectionOutputs(det_call.before)

\* C6 witness: the first call after a reset that followed a detection, on a
\* frame with a blob passing both gates.
C6_Witness ==
    /\ CallOnImage /\ det_call.first /\ det_call.passes
    /\ det_call.before.object_position # None
    /\ detector.avg # None

\* C7: the call that would take scan_count past the threshold (the 101st frame
\* since the model was seeded) reseeds the model from the current frame,
\* zeroes the counter and returns None whatever the frame holds; and the
\* counter is within 0..100 in every state.
C7_PeriodicReseed ==
    /\ detector.scan_count \in 0..100
    /\ (CallOnImage /\ det_call.before.avg # None /\ det_call.before.scan_count = 100) =>
            /\ det_call.ret = None
            /\ detector.avg = [seed |-> det_call.cam.id, blends |-> 0]
            /\ detector.scan_count = 0

\* C7 witness: the reseeding call was made on a frame with a blob passing both
\* area gates.
C7_Witness ==
    /\ CallOnImage /\ det_call.passes
    /\ det_call.before.avg # None /\ det_call.before.scan_count = 100
    /\ det_call.ret = None

\* C8: a detect_motion call made while is_moving is true returns None, asks
\* the camera for no frame, and leaves every field of the detector unchanged.
C8_SkippedWhileMoving ==
    (det_call.made /\ det_call.before.is_moving) =>
        /\ det_call.ret = None
        /\ ~det_call.acquired
        /\ detector = det_call.before

\* C8 witness: such a call, with a seeded model, while the camera had a frame
\* with a blob passing both gates.
C8_Witness ==
    /\ det_call.made /\ det_call.before.is_moving
    /\ det_call.cam \in Images /\ det_call.passes
    /\ det_call.before.avg # None

(***************************************************************************)
(* Claims about servo_lock (checked under Spec)                            *)
(***************************************************************************)
\* The threads that are at a call on the actuator driver.
BusCallers == {t \in Threads : pc[t] \in BusPcs}

\* C1: at most one thread is at an actuator call, and a thread that is at one
\* holds servo_lock: the control thread, the shutdown path of the main thread
\* and a caller of perform_movement_sequence alike.
C1_BusCallsUnderLock ==
    /\ Cardinality(BusCallers) <= 1
    /\ \A t \in BusCallers : servo_lock = t

\* C1 witness: the control thread is in the middle of a turn cycle while the
\* sequence and the shutdown path both wait for the lock.
C1_Witness ==
    /\ pc["ctl"] = "turn_leg" /\ loc.leg = 3
    /\ pc["seq"] = "seq_acq" /\ pc["main"] = "sd_acq"

\* Two move.move calls made one right after the other belong to one step
\* cycle: the later is leg 1 after a leg 4, or the next leg of the same caller
\* in the same direction.
CyclePair(a, b) ==
    IF b.leg = 1 THEN a.leg = 4
    ELSE a.by = b.by /\ a.dir = b.dir /\ b.leg = a.leg + 1

\* C2: the move.move calls seen on the bus are a concatenation of complete
\* four-leg cycles, each by one caller: no call of another thread falls
\* between leg 1 and leg 4 of a cycle.  Stated for calls that returned, so
\* that what refutes it is an interleaving, not a cycle cut short by a failure.
C2_WholeCycles ==
    [][ ( /\ bus_last.made /\ bus_last'.made /\ bus_last' # bus_last
          /\ bus_last.op = "move" /\ bus_last'.op = "move"
          /\ bus_last.ok /\ bus_last'.ok )
        => CyclePair(bus_last, bus_last') ]_vars

\* C3: no thread asks for servo_lock while it holds it.
C3_NoReentrantAcquire ==
    \A t \in Threads : pc[t] \in DOMAIN AcquireThen => servo_lock # t

\* C5: servo_lock is held only by a thread that is inside a with servo_lock
\* block, also after an actuator call has raised inside one; so whenever no
\* thread is inside such a block the lock is free and a thread asking for it
\* can take it.
C5_LockFreedOnFailure ==
    /\ \A t \in Threads : servo_lock = t => pc[t] \in GuardedPcs
    /\ (\A t \in Threads : pc[t] \notin GuardedPcs) =>
           /\ servo_lock = Free
           /\ \A t \in Threads : (Alive /\ pc[t] \in DOMAIN AcquireThen) => ENABLED Acquire(t)

\* C5 witness: a leg command of the control thread raised inside a step
\* cycle, and the sequence has taken the lock since.
C5_Witness ==
    /\ bus_last.made /\ bus_last.by = "ctl" /\ bus_last.op = "move" /\ ~bus_last.ok
    /\ pc["ctl"] = "cycle_err"
    /\ servo_lock = "seq"

(***************************************************************************)
(* Claims about move_to_object (checked under SpecExec)                    *)
(***************************************************************************)
\* The statements of move_to_object.
ManeuverPcs ==
    {"mv_begin", "turn_pub", "turn_acq", "turn_leg", "turn_upd", "turn_prog",
     "fwd_start", "fwd_test", "fwd_acq", "fwd_leg", "fwd_upd", "fwd_prog",
     "stand_acq", "stand", "mv_end", "mv_clear_image", "mv_clear_info"}

\* C4: when a leg command of a step cycle raises, the maneuver goes on: the
\* control thread is still in move_to_object, on its way to the remaining
\* legs, the stand command and the completion publish.
C4_LegFailureContained ==
    (bus_last.made /\ bus_last.op = "move" /\ ~bus_last.ok) => pc["ctl"] \in ManeuverPcs

\* The statements of move_to_object after the turn phase.
AfterTurnPcs ==
    {"fwd_start", "fwd_test", "fwd_acq", "fwd_leg", "fwd_upd", "fwd_prog", "stand_acq",
     "stand", "mv_end"}

\* The number of turn cycles the claim gives for the bearing b (tenths of a
\* degree): none up to 5 degrees, else floor(|b| / 10) capped at 4.
ClaimedTurns(b) ==
    IF Abs(b) <= 50 THEN 0
    ELSE IF Abs(b) \div 100 > 4 THEN 4 ELSE Abs(b) \div 100

\* C9: the turn phase runs ClaimedTurns(bearing_x) step cycles, and every leg
\* command of a turn cycle is 'right' for a positive bearing and 'left' for a
\* negative one.
C9_TurnPlan ==
    /\ pc["ctl"] \in AfterTurnPcs => loc.step = ClaimedTurns(loc.position.angle_x)
    /\ (bus_last.made /\ bus_last.op = "move" /\ bus_last.dir # "no") =>
           \/ loc.position.angle_x > 0 /\ bus_last.dir = "right"
           \/ loc.position.angle_x < 0 /\ bus_last.dir = "left"

\* C9 witness: a bearing of 37 degrees, three turn cycles to the right done.
C9_Witness ==
    /\ pc["ctl"] = "fwd_start" /\ loc.position.angle_x = 370 /\ loc.step = 3
    /\ bus_last.made /\ bus_last.dir = "right" /\ bus_last.leg = 4

\* move_to_object has returned normally from a non-empty detection.
ReturnedNormally == pc["ctl"] = "mv_return" /\ loc.position # None

\* C10: then is_moving is false, detection_info and last_detection_image are
\* None, and the pose published with the completion differs from the initial
\* pose whenever the plan had a turn step or the distance was positive.
C10_AfterManeuver ==
    ReturnedNormally =>
        /\ ~detector.is_moving
        /\ detector.detection_info = None
        /\ detector.last_detection_image = None
        /\ host.movement_info.status.text = "Movement complete. Standing by."
        /\ (Abs(loc.position.angle_x) >= 100 \/ loc.position.distance > 0) =>
               host.movement_info.position # [x |-> 0, y |-> 0, angle |-> 0]

\* C10 witness: a maneuver with no turn and a positive distance has returned,
\* and the published pose has moved along x.
C10_Witness ==
    /\ ReturnedNormally
    /\ loc.position.angle_x = 0 /\ loc.position.distance > 0
    /\ host.movement_info.position.x > 0

\* C11: within one maneuver a turn leg command ('left' or 'right') is the
\* first command or follows a turn leg command of the same direction, so no
\* turn cycle comes after a forward cycle; the stand command follows the
\* fourth leg of a forward cycle, and nothing follows the stand command.
C11_TurnThenForwardThenStand ==
    [][ bus_last' # bus_last =>
          /\ (bus_last'.op = "move" /\ bus_last'.dir # "no") =>
                 \/ ~bus_last.made
                 \/ bus_last.op = "move" /\ bus_last.dir = bus_last'.dir
          /\ bus_last'.op = "stand" =>
                 /\ bus_last.made /\ bus_last.op = "move" /\ bus_last.dir = "no"
                 /\ bus_last.leg = 4 /\ bus_last.ok
          /\ bus_last.made => bus_last.op # "stand" ]_vars

\* C11 witness: three turn cycles, then forward cycles, then the stand command.
C11_Witness ==
    /\ pc["ctl"] = "mv_end" /\ loc.step = 3 /\ loc.step_count >= 1
    /\ bus_last.made /\ bus_last.op = "stand" /\ bus_last.ok

(***************************************************************************)
(* Claims about the status snapshot and the control loop (SpecLoop)        *)
(***************************************************************************)
\* A get_status request has built its response.
SnapshotBuilt == pc["http"] = "gs_return"

\* C12: a status snapshot never carries exactly one of detection_info and
\* last_detection_image.
C12_NoTornSnapshot ==
    SnapshotBuilt =>
        ((status_data.detection_info = None) <=> (status_data.last_detection_image = None))

(***************************************************************************)
(* Claims about the status history (SpecHost)                              *)
(***************************************************************************)
\* C13: the history the host holds has at most ten lines.
C13_HistoryBounded == Len(HistoryOf(host)) <= 10

\* C14: the status_history of a snapshot is the last min(n, 10) of the n lines
\* published so far, in the order they were published.
C14_SnapshotHistory ==
    SnapshotBuilt =>
        LET n == Len(published)
            k == IF n < 10 THEN n ELSE 10
            lines == status_data.status_history
        IN  /\ Len(lines) = k
            /\ \A i \in 1..k : lines[i] = published[n - k + i]

\* C14 witness: eleven lines published, the first of them "line a" and
\* dropped from a snapshot that starts with "line b".
C14_Witness ==
    /\ SnapshotBuilt
    /\ Len(published) = 11
    /\ published[1] = Status("line a", 0) /\ published[2] = Status("line b", 0)
    /\ status_data.status_history[1] = Status("line b", 0)

\* C15: when the exception handler of a scan cycle hands control back to the
\* loop, a line describing the error has been published (and so appended to
\* the history) and the last actuator command is a stand command.
C15_CycleErrorReported ==
    [][ (pc["ctl"] = "cycle_err" /\ pc'["ctl"] # "cycle_err") =>
          /\ host'.current_status # host.current_status
          /\ bus_last'.made /\ bus_last'.op = "stand" ]_vars

\* C16: after move_to_object has raised with is_moving set, is_moving becomes
\* false again (and with it detect_motion processes frames again).
C16_ScanningResumes ==
    (pc["ctl"] = "cycle_err" /\ detector.is_moving) ~> ~detector.is_moving

\* C17: once the shutdown flag is set the control loop stops.
C17_StopsOnShutdown ==
    host.shutdown_flag ~> (pc["ctl"] = "done")

(***************************************************************************)
(* Claims about the start of the program (SpecBoot)                        *)
(***************************************************************************)
\* The process has exited from a failed init_camera.
ExitedAtStartup == pc["main"] = "exited" /\ pc["ctl"] = "unstarted"

\* C18: after a failed init_camera the process has exited with the server
\* thread and the control thread never started, no detect_motion call and no
\* actuator command made, and no camera object held.
C18_CleanExitOnCameraFailure ==
    ExitedAtStartup =>
        /\ pc["http"] = "http_off"
        /\ ~det_call.made /\ ~bus_last.made
        /\ host.camera = None

\* A detect_motion call of the scan loop got no image: no frame, an exception
\* of the camera, or bytes that do not decode.
CallWithoutImage ==
    det_call.made /\ ~det_call.before.is_moving /\ det_call.cam \notin Images

\* C19: such a call returns None with the background model and the scan
\* counter as they were, and the scan loop is at its next test or iteration,
\* not in an exception handler.
C19_NoFrameSkipsIteration ==
    CallWithoutImage =>
        /\ det_call.ret = None
        /\ detector.avg = det_call.before.avg
        /\ detector.scan_count = det_call.before.scan_count
        /\ pc["ctl"] \in {"scan_test", "detect"}

\* C19 witness: the camera raised on a scan after the model was seeded, and
\* the loop is about to call detect_motion again.
C19_Witness ==
    /\ CallWithoutImage /\ det_call.cam = CameraRaises
    /\ detector.avg # None
    /\ pc["ctl"] = "detect"

\* C19 witness for a frame that does not decode.
C19_WitnessUndecodable ==
    /\ CallWithoutImage /\ det_call.cam = Undecodable
    /\ pc["ctl"] = "scan_test"


\* The LED commands issued inside the scan/act loop: red at the head of a
\* cycle, off on detection, off between cycles.
LoopLedPcs == {"cycle", "led_detect", "led_cycle_end"}

\* C20: an LED command of the scan/act loop, returned or raised, is followed by
\* the same statement, and changes nothing of the detector, the lock, the
\* servo bus, the loop's locals or the published status: a failed command
\* differs from a successful one in the colour of the strip only.
C20_LedFailureKeepsControlFlow ==
    [][ (pc["ctl"] \in LoopLedPcs /\ pc'["ctl"] # pc["ctl"]) =>
            /\ pc'["ctl"] = LedThen[pc["ctl"]]
            /\ UNCHANGED <<detVars, servo_lock, loc, bus_last, host>> ]_vars

\* The command that turns the strip off on detection has failed after the red
\* one succeeded, and control has reached move_to_object all the same.
C20_Witness ==
    /\ pc["ctl"] = "mv_begin"
    /\ led = "red"
    /\ loc.position # None

(***************************************************************************)
(* Claims about the dead-reckoned pose                                     *)
(***************************************************************************)
\* The last movement publish is the completion of a maneuver.
ManeuverCompleted ==
    host.movement_info # None
    /\ host.movement_info.status.text = "Movement complete. Standing by."

\* C21: the pose is carried from one maneuver to the next: the pose published
\* at the start of a maneuver is the pose published at the completion of the
\* maneuver before it.
C21_PoseCarriedOver ==
    [][ (pc["ctl"] = "mv_begin" /\ loc.position # None /\ ManeuverCompleted) =>
            host'.movement_info.position = host.movement_info.position ]_vars

\* The pose after n turn cycles of the maneuver planned for the bearing a.
RECURSIVE TurnedBy(_, _)
TurnedBy(a, n) ==
    IF n = 0 THEN StartPose
    ELSE TurnedPose(TurnedBy(a, n - 1), a, turn_steps(a), turn_direction(a))

\* C22: in a maneuver with turn cycles, every cycle done has changed the
\* angle of the pose by |bearing_x| / steps, the angle is the opposite of the
\* angle the maneuver for the mirrored bearing has after as many cycles, and
\* after the turn phase its magnitude is |bearing_x|.
C22_TurnUpdatesPose ==
    (pc["ctl"] \in ManeuverPcs \ {"mv_begin"} /\ loc.steps > 0) =>
        LET a == loc.position.angle_x
            pose == loc.current_position
        IN  /\ Abs(pose.angle) * loc.steps = loc.step * Abs(a) * 12
            /\ loc.step > 0 => pose.angle = -TurnedBy(-a, loc.step).angle
            /\ pc["ctl"] \in AfterTurnPcs => Abs(pose.angle) = Abs(a) * 12

(***************************************************************************)
(* Claims about the lock during a maneuver (Spec)                          *)
(***************************************************************************)
\* The statements of move_to_object that are outside its with servo_lock
\* blocks: before, between and after the step cycles and the stand command.
BetweenCyclesPcs == ManeuverPcs \ {"turn_leg", "fwd_leg", "stand"}

\* C23: move_to_object holds servo_lock only inside one step cycle (legs 1 to
\* 4) or at the stand command; at every statement between two cycles it does
\* not hold it, and a thread waiting for the lock can take it whenever no
\* other thread has it.
C23_LockPerCycle ==
    /\ pc["ctl"] \in {"turn_leg", "fwd_leg"} => loc.leg \in 1..4
    /\ pc["ctl"] \in BetweenCyclesPcs =>
           /\ servo_lock # "ctl"
           /\ servo_lock = Free =>
                  \A t \in {"seq", "main"} :
                      (Alive /\ pc[t] \in DOMAIN AcquireThen) => ENABLED Acquire(t)

\* C23 witness: between the turn cycle and the first forward cycle of a
\* maneuver the sequence has taken the lock and made a call.
C23_Witness ==
    /\ pc["ctl"] = "fwd_acq" /\ loc.step = 1 /\ loc.step_count = 0
    /\ servo_lock = "seq"
    /\ bus_last.made /\ bus_last.by = "seq"

(***************************************************************************)
(* Claims about the advance phase (SpecExec)                               *)
(***************************************************************************)
\* The pose after n forward cycles of distance/5 each along the heading of
\* the pose p.
AdvancedBy(p, distance, n) ==
    [p EXCEPT !.x = @ + n * (distance \div 5) * CosOf(p.angle),
              !.y = @ + n * (distance \div 5) * SinOf(p.angle)]

\* C24: each 'Forward progress' publish follows 'Moving forward' with the
\* count 1 or the publish of the cycle before with the next count, and the
\* pose it carries is the pose at the start of the advance moved by
\* count * distance/5 along the heading.
C24_ForwardProgress ==
    [][ (host'.current_status # host.current_status /\ host'.movement_info # None
         /\ host'.movement_info.status.text = "Forward progress") =>
            LET before == host.movement_info
                after == host'.movement_info
                n == after.status.n
            IN  /\ before.status.text \in {"Moving forward", "Forward progress"}
                /\ n = before.status.n + 1
                /\ after.position.angle = before.position.angle
                /\ after.position =
                       AdvancedBy([before.position EXCEPT !.x = 0, !.y = 0],
                                  loc.position.distance, n) ]_vars

\* C24 witness: three forward cycles published after a turn of 37 degrees,
\* with the distance positive.
C24_Witness ==
    /\ host.movement_info # None
    /\ host.movement_info.status = Status("Forward progress", 3)
    /\ loc.position.angle_x = 370 /\ loc.position.distance > 0
    /\ host.movement_info.position.x > 0 /\ host.movement_info.position.y # 0

\* C25: the displacement accumulated in the pose during a maneuver never
\* exceeds the estimated distance of the detection: the forward cycles done
\* times distance/5 stay within the distance, and so does each component of
\* the pose (x and y are kept in millionths, the distance in thousandths).
C25_AdvanceWithinDistance ==
    (pc["ctl"] \in ManeuverPcs /\ loc.position # None) =>
        LET distance == loc.position.distance
            pose == loc.current_position
        IN  /\ loc.step_count * (distance \div 5) <= distance
            /\ Abs(pose.x) <= distance * 1000
            /\ Abs(pose.y) <= distance * 1000

\* The statements of move_to_object from the first publish after the flag is
\* set up to the statement that clears it.
FlaggedPcs == ManeuverPcs \ {"mv_begin", "mv_clear_image", "mv_clear_info"}

\* C26: is_moving is true at every statement of a maneuver from the plan to
\* the clearing of the flag, the leg and stand commands among them; the flag
\* is cleared after the stand command has returned and 'Movement complete' is
\* published; and while the flag is set the detection record is in place.
C26_MovingFlagCoversManeuver ==
    /\ pc["ctl"] \in FlaggedPcs => detector.is_moving
    /\ pc["ctl"] = "mv_end" =>
           /\ bus_last.made /\ bus_last.op = "stand" /\ bus_last.ok
           /\ host.movement_info.status.text = "Movement complete. Standing by."
    /\ (pc["ctl"] \in ManeuverPcs /\ detector.is_moving) =>
           detector.detection_info # None

\* C26 witness: after the stand command the flag is cleared and the image is
\* cleared, and the detection record is still to be cleared.
C26_Witness ==
    /\ pc["ctl"] = "mv_clear_info"
    /\ ~detector.is_moving
    /\ detector.last_detection_image = None /\ detector.detection_info # None
    /\ bus_last.made /\ bus_last.op = "stand"

(***************************************************************************)
(* Claims about the head repositioning (SpecHead)                          *)
(***************************************************************************)
\* C27: a scan cycle that has published its HeadMovement record goes on to
\* the scanning phase, whatever the deltas: detect_motion is called.
C27_HeadRepositioned ==
    (pc["ctl"] = "head_acq") ~> (pc["ctl"] = "detect")

(***************************************************************************)
(* Claims about the alternation of scan and act (SpecLoop)                 *)
(***************************************************************************)
\* The statements from the return of a detection to the call of
\* move_to_object, and those of them after the 'Motion detected' publish.
HandoverPcs == {"detected", "store_acq", "store_head", "led_detect", "mv_begin"}

\* C28: move_to_object is reached only with the position the last
\* detect_motion call returned, after 'Motion detected' has been published
\* and with no actuator command since; a detect_motion call that has no call
\* before it in its cycle (the first after start or after a maneuver) finds
\* the detector reset, and returns None.
C28_ScanActAlternate ==
    /\ pc["ctl"] \in HandoverPcs =>
           /\ det_call.made /\ det_call.ret # None
           /\ loc.position = det_call.ret
    /\ pc["ctl"] \in HandoverPcs \ {"detected"} =>
           host.current_status.text = "Motion detected! Moving to target..."
    /\ (pc["ctl"] = "detect" /\ ~det_call.made) => (det_fresh /\ detector.avg = None)
    /\ (det_call.made /\ det_call.first) => det_call.ret = None

\* C28 witness: after a completed maneuver the first detect_motion call of
\* the next cycle saw a frame with a blob passing both gates and returned None.
C28_Witness ==
    /\ ManeuverCompleted
    /\ det_call.made /\ det_call.first
    /\ det_call.cam \in Images /\ det_call.passes
    /\ det_call.ret = None

(***************************************************************************)
(* Claims about the gates and the position estimate (SpecGate)             *)
(***************************************************************************)
\* The contours of the call include one of maximal area that is above 2500
\* in area and above 10000 in bounding-box area.
LargestPassesBoth(cs) ==
    \E i \in 1..Len(cs) :
        /\ \A j \in 1..Len(cs) : cs[j].area <= cs[i].area
        /\ cs[i].area > 2500
        /\ cs[i].w * cs[i].h > 10000

\* C29: a call on a decoded frame with the model seeded and fewer than 100
\* scans counted returns a detection exactly when the largest contour passes
\* both gates; when it returns None, the detection record, the detection
\* image, the position and the motion flag are as before the call.
C29_GatesDecideDetection ==
    (CallOnImage /\ det_call.before.avg # None /\ det_call.before.scan_count < 100) =>
        /\ (det_call.ret # None) <=> LargestPassesBoth(det_call.cs)
        /\ det_call.ret = None =>
               DetectionOutputs(detector) = DetectionOutputs(det_call.before)

\* C29 witness: the largest contour passes the area gate and sits exactly on
\* the box gate, while a detection is held and a smaller contour would pass.
C29_Witness ==
    /\ CallOnImage /\ det_call.before.scan_count = 99
    /\ det_call.cs = <<ThinContour, SparseContour>>
    /\ det_call.before.detection_info # None
    /\ det_call.ret = None

Sign(n) == IF n > 0 THEN 1 ELSE IF n < 0 THEN -1 ELSE 0

\* C30: a detection's bearing_x has the sign of the offset of the box centre
\* from the frame centre (320) and is within 30 degrees; and against the
\* detection held before the call, a larger box area gives a smaller
\* distance, a smaller one a larger distance, an equal one the same.
C30_BearingAndDistance ==
    (CallOnImage /\ det_call.ret # None) =>
        LET c == largest_contour(det_call.cs)
            offset == (c.x + (c.w \div 2)) - 320
            held == det_call.before.detection_info
        IN  /\ Sign(det_call.ret.angle_x) = Sign(offset)
            /\ Abs(det_call.ret.angle_x) <= 300
            /\ held # None =>
                   LET a0 == held.object_size.width * held.object_size.height
                       d0 == held.position.distance
                   IN  /\ c.w * c.h > a0 => det_call.ret.distance < d0
                       /\ c.w * c.h < a0 => det_call.ret.distance > d0
                       /\ c.w * c.h = a0 => det_call.ret.distance = d0

\* C30 witness: a detection at the left edge of the frame, with a smaller box
\* than the detection held before it.
C30_Witness ==
    /\ CallOnImage /\ det_call.ret # None
    /\ det_call.cs = <<EdgeContour>>
    /\ det_call.before.detection_info = InfoOf(RightContour)
    /\ det_call.ret.angle_x < -280
    /\ det_call.ret.distance > det_call.before.object_position.distance

(***************************************************************************)
(* Claims about the head term of the bearing (Spec)                        *)
(***************************************************************************)
\* C31: a detection made while the head is panned away from its centre
\* reports a bearing that differs from the bearing of the same box centre
\* with the head centred (the image bearing alone).
C31_HeadBiasInBearing ==
    [][ ( /\ det_call' # det_call /\ det_call'.made /\ det_call'.ret # None
          /\ head.x # HeadCenter )
        => det_call'.ret.angle_x #
               AngleOf(loc'.contour.x + (loc'.contour.w \div 2), FrameWidth \div 2) ]_vars

(***************************************************************************)
(* Claims about exceptions in the loop and the turn plan                   *)
(***************************************************************************)
\* The statements of the outer handler and of the end of the thread.
EndOfLoopPcs == {"fatal", "fatal_led", "fatal_acq", "fatal_clean", "final", "done"}

\* C32: the outer handler, which ends the supervising loop, is entered from
\* initialize_robot only, never from a statement of the scan/act loop; and
\* after an exception has reached the handler of a scan cycle the loop
\* starts another cycle.
C32_LoopSurvivesExceptions ==
    /\ [][ (pc'["ctl"] \in EndOfLoopPcs /\ pc["ctl"] \notin EndOfLoopPcs) =>
               pc["ctl"] \in {"init_clean", "init_all", "init_home"} ]_vars
    /\ (pc["ctl"] = "cycle_err") ~> (pc["ctl"] = "cycle_reset")

\* C32 witness: a leg command of the executor raised, and the next scan cycle
\* has begun.
C32_Witness ==
    /\ pc["ctl"] = "cycle_reset"
    /\ bus_last.made /\ bus_last.by = "ctl" /\ bus_last.op = "move" /\ ~bus_last.ok

\* C38: when the forward phase of a maneuver with |bearing_x| > 5 degrees
\* begins (the 'Turning' status has been published), at least one turn cycle
\* has been done and its leg commands were in the direction of the plan.
C38_TurningTurns ==
    (pc["ctl"] = "fwd_start" /\ needs_turn(loc.position.angle_x)) =>
        /\ loc.step >= 1
        /\ bus_last.made /\ bus_last.op = "move" /\ bus_last.dir = loc.direction

(***************************************************************************)
(* Claims about the movement record a reader sees (SpecLoop)               *)
(***************************************************************************)
\* C34: the movement record get_status returns is the record of one publish:
\* the position in the record the host holds changes only in a step that
\* publishes (one that also sets the status of the record and the current
\* status), so a request served at any moment reads a position and a status
\* that were handed over together.
C34_RecordOfOnePublish ==
    [][ (/\ host.movement_info # None /\ host'.movement_info # None
         /\ host'.movement_info.position # host.movement_info.position
         /\ ENABLED GsBegin) =>
            /\ host'.movement_info.status # host.movement_info.status
            /\ host'.current_status = host'.movement_info.status ]_vars

(***************************************************************************)
(* The detection points of the host: add_detection_point called any number *)
(* of times, and the /detection_points request.                            *)
(***************************************************************************)
\* Keep only last 50 points.
PointsKept == 50

\* Calls of add_detection_point the model follows.
MaxPoints == 52

\* The point of the t-th call: the timestamp tells the calls apart.
Point(t) == [x |-> t % 5, y |-> t % 3, timestamp |-> t, type |-> "motion"]

\* A trim that takes the point just appended: list.pop().
DropNewest(points) == SubSeq(points, 1, Len(points) - 1)

\* self.detection_points.pop(0)
DropOldest(points) == Tail(points)

\* VideoHost.add_detection_point
add_detection_point(h, point) ==
    LET appended == Append(h.detection_points, point)
    IN  [h EXCEPT !.detection_points =
            IF Len(appended) > PointsKept THEN DropOldest(appended) ELSE appended]

\* The host as constructed, with its list of points.
FreshHostPoints == FreshHost @@ [detection_points |-> <<>>]

PointsInit ==
    /\ detector = NewDetector
    /\ det_call = NoCall
    /\ det_fresh = TRUE
    /\ servo_lock = Free
    /\ pc = [t \in Threads |-> CASE t = "ctl" -> "done"
                                 [] t = "seq" -> "seq_done"
                                 [] t = "main" -> "run"
                                 [] t = "http" -> "http_idle"]
    /\ loc = NewLocals @@ [calls |-> 0]
    /\ seq_i = 0
    /\ head = HeadHome
    /\ bus_last = NoBus
    /\ host = FreshHostPoints
    /\ bus_time = SlowBus
    /\ led = "off"
    /\ published = <<>>
    /\ status_data = None

\* One call of add_detection_point; calls counts the calls made.
AddPoint ==
    /\ loc.calls < MaxPoints
    /\ host' = add_detection_point(host, Point(loc.calls + 1))
    /\ loc' = [loc EXCEPT !.calls = @ + 1]
    /\ UNCHANGED <<detVars, servo_lock, pc, seq_i, head, bus_last, bus_time, led, webVars>>

\* get_detection_points: the list as the request reads it.
GetPoints ==
    /\ At("http", "http_idle")
    /\ status_data' = [detection_points |-> host.detection_points]
    /\ Goto("http", "gp_return")
    /\ UNCHANGED <<detVars, servo_lock, loc, seq_i, head, bus_last, host, bus_time, led, published>>

\* The response is sent.
GetPointsReturn ==
    /\ At("http", "gp_return")
    /\ Goto("http", "http_idle")
    /\ UNCHANGED <<detVars, servo_lock, loc, seq_i, head, bus_last, host, bus_time, led, webVars>>

PointsNext == AddPoint \/ GetPoints \/ GetPointsReturn

SpecPoints == PointsInit /\ [][PointsNext]_vars

\* C40: after any number n of add_detection_point calls the list holds
\* min(n, 50) points, and they are the points of the last min(n, 50) calls in
\* the order of the calls; a request reads at most 50 points.
C40_LastFiftyPoints ==
    LET n == loc.calls
        k == Min(n, PointsKept)
        points == host.detection_points
    IN  /\ Len(points) = k
        /\ \A i \in 1..k : points[i] = Point(n - k + i)
        /\ status_data # None => Len(status_data.detection_points) <= PointsKept

\* C40 witness: 52 calls made; the list holds the points of calls 3 to 52.
C40_Witness ==
    /\ loc.calls = 52
    /\ Len(host.detection_points) = PointsKept
    /\ host.detection_points[1].timestamp = 3
    /\ host.detection_points[PointsKept].timestamp = 52

(***************************************************************************)
(* The record writers of the host called with any value: one that is not a *)
(* dict, or a dict with any of the keys.                                   *)
(***************************************************************************)
\* Calls of the two writers the model follows.
MaxRecords == 3

\* The dicts with the keys ks of the record full.
Restrict(full, ks) == [k \in ks |-> full[k]]

\* What update_movement_info is handed.
MovementInputs ==
    LET full == [status |-> Status("line a", 0),
                 position |-> [x |-> 1, y |-> 2, angle |-> 3],
                 progress |-> [percent |-> 40], details |-> [text |-> "details"]]
    IN  {Restrict(full, ks) : ks \in SUBSET (DOMAIN full)} \cup {[nondict |-> "line b"]}

\* What update_head_movement is handed.
HeadInputs ==
    LET full == [status |-> Status("line a", 0), x |-> 310, y |-> 290,
                 target |-> [x |-> 300, y |-> 300]]
    IN  {Restrict(full, ks) : ks \in SUBSET (DOMAIN full)} \cup {[nondict |-> "line b"]}

RecordsInit ==
    /\ detector = NewDetector
    /\ det_call = NoCall
    /\ det_fresh = TRUE
    /\ servo_lock = Free
    /\ pc = [t \in Threads |-> CASE t = "ctl" -> "done"
                                 [] t = "seq" -> "seq_done"
                                 [] t = "main" -> "run"
                                 [] t = "http" -> "http_idle"]
    /\ loc = NewLocals
    /\ seq_i = 0
    /\ head = HeadHome
    /\ bus_last = NoBus
    /\ host = FreshHostLogged
    /\ bus_time = SlowBus
    /\ led = "off"
    /\ published = <<>>
    /\ status_data = None

\* The caller may call a writer.
MayRecord == At("main", "run") /\ Len(published) < MaxRecords

\* host.update_movement_info(info); published counts the calls.
RecordMovement ==
    /\ MayRecord
    /\ \E info \in MovementInputs :
        /\ host' = update_movement_info(host, info)
        /\ published' = Append(published, "update_movement_info")
    /\ UNCHANGED <<detVars, servo_lock, pc, loc, seq_i, head, bus_last, bus_time, led, status_data>>

\* host.update_head_movement(info): the call returns or raises KeyError.
RecordHead ==
    /\ MayRecord
    /\ \E info \in HeadInputs :
        /\ host' = update_head_movement(host, info)
        /\ published' = Append(published, "update_head_movement")
        /\ IF head_update_raises(info) THEN Goto("main", "rec_raised") ELSE UNCHANGED pc
    /\ UNCHANGED <<detVars, servo_lock, loc, seq_i, head, bus_last, bus_time, led, status_data>>

\* The caller's handler of the exception.
RecordCaught ==
    /\ At("main", "rec_raised")
    /\ Goto("main", "run")
    /\ UNCHANGED <<detVars, servo_lock, loc, seq_i, head, bus_last, host, bus_time, led, webVars>>

RecordsNext == RecordMovement \/ RecordHead \/ RecordCaught

SpecRecords == RecordsInit /\ [][RecordsNext]_vars

\* C39: every call of update_movement_info and of update_head_movement
\* returns without raising, and has stored a record with every required field
\* and appended the status of that record to the history.
C39_RecordAndHistoryTogether ==
    [][ published' # published =>
          LET stored == IF published'[Len(published')] = "update_movement_info"
                        THEN host'.movement_info ELSE host'.head_movement_info
              required == IF published'[Len(published')] = "update_movement_info"
                          THEN {"status", "position", "progress", "details"}
                          ELSE {"status", "x", "y", "target"}
          IN  /\ pc'["main"] = "run"
              /\ required \subseteq DOMAIN stored
              /\ host'.status_history = Append(host.status_history, stored.status)
              /\ host'.current_status = stored.status ]_vars

(***************************************************************************)
(* VideoHost(...) called by two threads, each any number of times, and the *)
(* host used in between.                                                   *)
(***************************************************************************)
\* The threads that construct the host, and the port each passes.
Constructors == {"main", "ctl"}

PortOf(t) == IF t = "main" THEN 5000 ELSE 8080

\* Status lines and points a thread hands to the host it has constructed.
MaxUses == 2

\* super().__new__(cls): an instance without attributes of its own.
BareInstance == [class |-> "VideoHost"]

\* The body of VideoHost.__init__: every field is assigned, whatever the
\* instance held before.
init_body(h, port) ==
    ( FreshHostLogged @@
      [port |-> port, camera_lock |-> Free, detection_points |-> <<>>,
       initialized |-> TRUE] ) @@ h

NewInit ==
    /\ detector = NewDetector
    /\ det_call = NoCall
    /\ det_fresh = TRUE
    /\ servo_lock = Free
    /\ pc = [t \in Threads |-> CASE t \in Constructors -> "caller"
                                 [] t = "seq" -> "seq_done"
                                 [] t = "http" -> "http_idle"]
    /\ loc = NewLocals
    /\ seq_i = 0
    /\ head = HeadHome
    /\ bus_last = NoBus
    /\ host = None
    /\ bus_time = SlowBus
    /\ led = "off"
    /\ published = <<>>
    /\ status_data = None

\* VideoHost.__new__: the check, the lock and the second check decide once
\* which instance there is; the model takes them as one step.
NewInstance(t) ==
    /\ At(t, "caller")
    /\ host' = IF host = None THEN BareInstance ELSE host
    /\ Goto(t, "init_check")
    /\ UNCHANGED <<detVars, servo_lock, loc, seq_i, head, bus_last, bus_time, led, webVars>>

\* if not hasattr(self, 'initialized')
InitCheck(t) ==
    /\ At(t, "init_check")
    /\ Goto(t, IF hasattr(host, "initialized") THEN "constructed" ELSE "init_body")
    /\ UNCHANGED <<detVars, servo_lock, loc, seq_i, head, bus_last, host, bus_time, led, webVars>>

\* The body of __init__; published lists the threads that ran it.
InitBody(t) ==
    /\ At(t, "init_body")
    /\ host' = init_body(host, PortOf(t))
    /\ published' = Append(published, t)
    /\ Goto(t, "constructed")
    /\ UNCHANGED <<detVars, servo_lock, loc, seq_i, head, bus_last, bus_time, led, status_data>>

\* The constructor has returned; the thread uses the host or constructs again.
UseStatus(t) ==
    /\ At(t, "constructed")
    /\ Len(host.status_history) < MaxUses
    /\ host' = update_status(host, Status("line a", 0))
    /\ UNCHANGED <<detVars, servo_lock, pc, loc, seq_i, head, bus_last, bus_time, led, webVars>>

UseCamera(t) ==
    /\ At(t, "constructed")
    /\ host.camera = None
    /\ host' = init_camera(host, "ok").host
    /\ UNCHANGED <<detVars, servo_lock, pc, loc, seq_i, head, bus_last, bus_time, led, webVars>>

UsePoint(t) ==
    /\ At(t, "constructed")
    /\ Len(host.detection_points) < MaxUses
    /\ host' = add_detection_point(host, Point(Len(host.detection_points) + 1))
    /\ UNCHANGED <<detVars, servo_lock, pc, loc, seq_i, head, bus_last, bus_time, led, webVars>>

UseShutdown(t) ==
    /\ At(t, "constructed")
    /\ ~host.shutdown_flag
    /\ host' = [host EXCEPT !.shutdown_flag = TRUE]
    /\ UNCHANGED <<detVars, servo_lock, pc, loc, seq_i, head, bus_last, bus_time, led, webVars>>

ConstructAgain(t) ==
    /\ At(t, "constructed")
    /\ Goto(t, "caller")
    /\ UNCHANGED <<detVars, servo_lock, loc, seq_i, head, bus_last, host, bus_time, led, webVars>>

NewNext ==
    \E t \in Constructors :
        \/ NewInstance(t) \/ InitCheck(t) \/ InitBody(t)
        \/ UseStatus(t) \/ UseCamera(t) \/ UsePoint(t) \/ UseShutdown(t)
        \/ ConstructAgain(t)

SpecNew == NewInit /\ [][NewNext]_vars

\* The fields of the host the constructor assigns that hold the state of the
\* running service.
ServiceState(h) ==
    [f \in {"port", "camera", "camera_lock", "status_history", "detection_points",
            "shutdown_flag"} |-> h[f]]

\* C35: the body of __init__ runs at most once, and a step of a constructor
\* on a host that is initialised (a later or a concurrent VideoHost() call)
\* leaves the port, the camera, the camera lock, the status history, the
\* detection points and the shutdown flag as they are.
C35_InitialisedOnce ==
    [][ /\ Len(published') <= 1
        /\ (hasattr(host, "initialized") /\ published' # published) =>
               ServiceState(host') = ServiceState(host) ]_vars

(***************************************************************************)
(* The host serving: a /video_feed stream, a thread calling                *)
(* get_frame_safe, and /status requests, on a host that is constructed and *)
(* started, with or without set_detector.                                  *)
(***************************************************************************)
\* The threads of this specification: the one that started the host, the
\* server's threads for /status and for /video_feed, and a caller of
\* get_frame_safe (as MotionDetector.detect_motion is).
ServeThreads == {"main", "http", "feed", "cam"}

\* init_camera calls the model follows.
MaxCameraCalls == 3

\* What camera.get_frame() can do: return a frame, return None, raise.
FrameOutcomes == {"frame", "none", "raises"}

\* The constructed host with the lock of the camera.
FreshHostServing == FreshHostLogged @@ [camera_lock |-> Free]

ServeInit ==
    /\ detector = NewDetector
    /\ det_call = NoCall
    /\ det_fresh = TRUE
    /\ servo_lock = Free
    /\ pc = [t \in ServeThreads |-> CASE t = "main" -> "run"
                                      [] t = "http" -> "http_idle"
                                      [] t = "feed" -> "feed_off"
                                      [] t = "cam" -> "cam_idle"]
    /\ loc = NewLocals
    /\ seq_i = 0
    /\ head = HeadHome
    /\ bus_last = NoBus
    /\ \E handed \in BOOLEAN :
        host = start(IF handed THEN set_detector(FreshHostServing) ELSE FreshHostServing)
    /\ bus_time = SlowBus
    /\ led = "off"
    /\ published = <<>>
    /\ status_data = None

\* self.init_camera() by the thread t, which goes to yes when it returns True
\* and to no otherwise.  The call takes camera_lock for its whole body;
\* published lists the calls: what the camera did (or would have done) at the
\* test, and what the call returned.
CallInitCamera(t, yes, no) ==
    /\ host.camera_lock = Free
    /\ Len(published) < MaxCameraCalls
    /\ \E outcome \in CameraStartups :
        LET r == init_camera(host, outcome)
        IN  /\ host' = r.host
            /\ published' = Append(published, [outcome |-> outcome, ret |-> r.ret])
            /\ Goto(t, IF r.ret THEN yes ELSE no)
    /\ UNCHANGED <<detVars, servo_lock, loc, seq_i, head, bus_last, bus_time, led, status_data>>

\* with self.camera_lock: the thread t enters when the lock is free.
CameraAcquire(t, to) ==
    /\ host.camera_lock = Free
    /\ host' = [host EXCEPT !.camera_lock = t]
    /\ Goto(t, to)
    /\ UNCHANGED <<detVars, servo_lock, loc, seq_i, head, bus_last, bus_time, led, webVars>>

\* A client requests /video_feed: generate() starts with init_camera.
FeedBegin ==
    /\ At("feed", "feed_off")
    /\ CallInitCamera("feed", "feed_acq", "feed_off")

FeedAcquire ==
    /\ At("feed", "feed_acq")
    /\ CameraAcquire("feed", "feed_frame")

\* frame = self.camera.get_frame() inside the with block: a frame is
\* yielded, and the generator is suspended where it stands; without a frame
\* the block is left after the sleep.
FeedFrame ==
    /\ At("feed", "feed_frame")
    /\ \E outcome \in FrameOutcomes :
        IF outcome = "frame"
        THEN /\ Goto("feed", "feed_yield")
             /\ UNCHANGED host
        ELSE /\ Goto("feed", "feed_acq")
             /\ host' = [host EXCEPT !.camera_lock = Free]
    /\ UNCHANGED <<detVars, servo_lock, loc, seq_i, head, bus_last, bus_time, led, webVars>>

\* The server asks the generator for the next part, once the client has
\* taken the last: the with block is left and the loop goes round.
FeedResume ==
    /\ At("feed", "feed_yield")
    /\ host' = [host EXCEPT !.camera_lock = Free]
    /\ Goto("feed", "feed_acq")
    /\ UNCHANGED <<detVars, servo_lock, loc, seq_i, head, bus_last, bus_time, led, webVars>>

\* The client is gone and the server closes the generator: GeneratorExit at
\* the yield leaves the with block.
FeedClose ==
    /\ At("feed", "feed_yield")
    /\ host' = [host EXCEPT !.camera_lock = Free]
    /\ Goto("feed", "feed_off")
    /\ UNCHANGED <<detVars, servo_lock, loc, seq_i, head, bus_last, bus_time, led, webVars>>

\* get_frame_safe: if not self.init_camera(): return None
FrameSafeBegin ==
    /\ At("cam", "cam_idle")
    /\ CallInitCamera("cam", "cam_acq", "cam_idle")

FrameSafeAcquire ==
    /\ At("cam", "cam_acq")
    /\ CameraAcquire("cam", "cam_frame")

\* The capture inside the with block; the frame, or None, is returned.
FrameSafeReturn ==
    /\ At("cam", "cam_frame")
    /\ host' = [host EXCEPT !.camera_lock = Free]
    /\ Goto("cam", "cam_idle")
    /\ UNCHANGED <<detVars, servo_lock, loc, seq_i, head, bus_last, bus_time, led, webVars>>

ServeNext ==
    \/ FeedBegin \/ FeedAcquire \/ FeedFrame \/ FeedResume \/ FeedClose
    \/ FrameSafeBegin \/ FrameSafeAcquire \/ FrameSafeReturn
    \/ GsBegin \/ GsCheck \/ GsReturn

SpecServe == ServeInit /\ [][ServeNext]_vars

\* C33: the camera lock is free whenever the streaming generator is
\* suspended at its yield, so that a get_frame_safe call waiting for the lock
\* can take it and return.
C33_LockFreeWhileSuspended ==
    pc["feed"] = "feed_yield" =>
        /\ host.camera_lock = Free
        /\ pc["cam"] = "cam_acq" => ENABLED FrameSafeAcquire

\* C36: when an init_camera call has returned False because the test frame
\* was None, the next call, with the camera doing the same, returns False.
C36_NoFrameStaysFalse ==
    \A i \in 1..(Len(published) - 1) :
        ( /\ published[i] = [outcome |-> "no_frame", ret |-> FALSE]
          /\ published[i + 1].outcome = "no_frame" ) => ~published[i + 1].ret

\* C37: a /status request that has been served has returned a snapshot, not
\* raised; and on a host without a detector the snapshot has no detection.
C37_StatusNeverRaises ==
    (pc["http"] = "http_idle" /\ status_data # None) =>
        /\ ~hasattr(status_data, "raised")
        /\ ~hasattr(host, "detector") =>
               /\ status_data.detection_info = None
               /\ status_data.last_detection_image = None

============================================================================
